---- MODULE Spec2Model ----
(***************************************************************************)
(* State-machine model of the grade-management core of student_app:        *)
(* app/auth.py (credential store, session registry), app/services.py       *)
(* (access policy, grade ledger, notification flag, audit log,             *)
(* aggregation), app/security.py (password digests) and the tables of      *)
(* app/data.py.                                                            *)
(*                                                                         *)
(* Conventions                                                             *)
(*   - a Python float is a number of hundredths (8550 is 85.5); a stored   *)
(*     score, after round(score, 1), is a multiple of 10; NaN is the one   *)
(*     non-number a float can be that passes the range test;               *)
(*   - a datetime is a number of minutes since the module was loaded;      *)
(*   - None is the string "None" for identifiers and NoTime for datetimes; *)
(*   - the Chinese detail strings of AppError are rendered as ASCII keys   *)
(*     (one key per distinct source string);                               *)
(*   - the server handles one request at a time (web.py:824, HTTPServer):  *)
(*     resp holds what the call being answered returned or raised, and is  *)
(*     NoResp between calls.                                               *)
(***************************************************************************)
EXTENDS Integers, Sequences, FiniteSets, TLC

VARIABLES accounts, tokens, minted, students, grades, audit_logs, now, resp,
          threads

vars == <<accounts, tokens, minted, students, grades, audit_logs, now, resp,
         threads>>

authVars == <<accounts, tokens, minted>>
ledgerVars == <<students, grades, audit_logs>>

----------------------------------------------------------------------------
(* Bounds of the model *)

MaxTime == 16
MaxTokens == 2
MaxLog == 4

(* Program constants *)

LOCKOUT_THRESHOLD == 5
LOCKOUT_MINUTES == 15
PASSING_SCORE == 60

NoTime == -1
NaN == -7

----------------------------------------------------------------------------
(* app/models.py *)

Role == [STUDENT |-> "student", TEACHER |-> "teacher", PRINCIPAL |-> "principal"]

AuditAction ==
  [GRADE_CREATED |-> "grade_created", GRADE_UPDATED |-> "grade_updated",
   GRADE_PUBLISHED |-> "grade_published", EXPORT |-> "export",
   PASSWORD_RESET |-> "password_reset"]

----------------------------------------------------------------------------
(* app/data.py: the reference tables, reduced to two subjects, three       *)
(* students in two classes and two teachers.  EX2025N is the draft exam    *)
(* that tests/test_app.py adds to data.exams; T200 is given one class only *)
(* so that the class branch of the access policy has an outside case;      *)
(* t_new is a teacher account with no Teacher record and s_gone a student  *)
(* account with no Student record (the branches at services.py:54, 92).    *)

data_students ==
  [S001 |-> [student_no |-> "S001", class_name |-> "Class 1"],
   S002 |-> [student_no |-> "S002", class_name |-> "Class 1"],
   S004 |-> [student_no |-> "S004", class_name |-> "Class 2"]]

data_subjects == {"CHN", "MTH"}

data_teachers ==
  [T100 |-> [teacher_id |-> "T100", subjects |-> {"CHN"},
             classes |-> {"Class 1", "Class 2"}],
   T200 |-> [teacher_id |-> "T200", subjects |-> {"MTH"},
             classes |-> {"Class 1"}]]

data_exams ==
  [EX2025M |-> [exam_id |-> "EX2025M", term |-> "2025-1", exam_date |-> 20250520],
   EX2025N |-> [exam_id |-> "EX2025N", term |-> "2025-1", exam_date |-> 20250710]]

StudentNos == DOMAIN data_students
ExamIds == DOMAIN data_exams
TeacherIds == DOMAIN data_teachers

(* security.py: a digest is PBKDF2 of the password under the salt,         *)
(* idealised as injective; the stored string is salt$digest.               *)
Salts == {"salt1"}

_salt_password(password, salt) == <<password, salt>>

hash_password(password, salt) ==
  [salt |-> salt, hashed |-> _salt_password(password, salt)]

verify_password(password, stored) ==
  _salt_password(password, stored.salt) = stored.hashed

(* generate_random_password(): the passwords a reset can hand out *)
GeneratedPasswords == {"Gen#1", "Gen#2"}

_initial_password_hash == hash_password("Pass@123", "salt1")

NewAccount(username, role, bind_id) ==
  [username |-> username, role |-> role, bind_id |-> bind_id,
   password_hash |-> _initial_password_hash, locked_until |-> NoTime,
   failed_attempts |-> 0, force_password_change |-> TRUE]

data_accounts ==
  [principal |-> NewAccount("principal", Role.PRINCIPAL, "None"),
   t_chn |-> NewAccount("t_chn", Role.TEACHER, "T100"),
   t_mth |-> NewAccount("t_mth", Role.TEACHER, "T200"),
   t_new |-> NewAccount("t_new", Role.TEACHER, "None"),
   s_s001 |-> NewAccount("s_s001", Role.STUDENT, "S001"),
   s_s002 |-> NewAccount("s_s002", Role.STUDENT, "S002"),
   s_gone |-> NewAccount("s_gone", Role.STUDENT, "S999")]

Usernames == DOMAIN data_accounts

_grade_seed ==
  <<[key |-> <<"EX2025M", "CHN", "S001">>, score |-> 8800],
    [key |-> <<"EX2025M", "CHN", "S002">>, score |-> 7600],
    [key |-> <<"EX2025M", "CHN", "S004">>, score |-> 8100],
    [key |-> <<"EX2025M", "MTH", "S001">>, score |-> 9500],
    [key |-> <<"EX2025M", "MTH", "S002">>, score |-> 8200],
    [key |-> <<"EX2025M", "MTH", "S004">>, score |-> 8800]>>

SeedKeys == {_grade_seed[i].key : i \in 1..Len(_grade_seed)}

SeedTeacher(subject_code) ==
  CHOOSE t \in TeacherIds : subject_code \in data_teachers[t].subjects

SeedGrade(i) ==
  [exam_id |-> _grade_seed[i].key[1], subject_code |-> _grade_seed[i].key[2],
   student_no |-> _grade_seed[i].key[3], score |-> _grade_seed[i].score,
   created_by |-> SeedTeacher(_grade_seed[i].key[2]),
   created_at |-> 0, updated_at |-> 0, published |-> TRUE]

----------------------------------------------------------------------------
(* What a call returns or raises *)

(* every value is a record; NoValue is Python's None *)
NoValue == [none |-> TRUE]

Return(op, value) ==
  [op |-> op, status |-> 200, detail |-> "ok", value |-> value]

Raise(op, status_code, detail) ==
  [op |-> op, status |-> status_code, detail |-> detail, value |-> NoValue]

NoResp == [op |-> "idle", status |-> 0, detail |-> "", value |-> NoValue]

Idle == resp = NoResp

(* the handler hands its response to the caller; the next request starts *)
Respond ==
  /\ ~Idle
  /\ resp' = NoResp
  /\ UNCHANGED <<accounts, tokens, minted, students, grades, audit_logs, now,
                 threads>>

Init ==
  /\ accounts = data_accounts
  /\ tokens = << >>
  /\ minted = 0
  /\ students = [s \in StudentNos |->
                   [student_no |-> s, class_name |-> data_students[s].class_name,
                    has_unread_published_grades |-> FALSE]]
  /\ grades = [i \in 1..Len(_grade_seed) |-> SeedGrade(i)]
  /\ audit_logs = << >>
  /\ now = 0
  /\ resp = NoResp
  /\ threads = << >>

(* _now(): the wall clock moves between calls *)
TickSteps == {LOCKOUT_MINUTES - 1, LOCKOUT_MINUTES, LOCKOUT_MINUTES + 1}

Tick(d) ==
  /\ Idle /\ UNCHANGED threads
  /\ now + d <= MaxTime
  /\ now' = now + d
  /\ UNCHANGED <<accounts, tokens, minted, students, grades, audit_logs, resp>>

----------------------------------------------------------------------------
(* app/auth.py *)

LoginNames == {"s_s001", "nobody"}
Passwords == {"Pass@123", "wrong", "New@456"} \cup GeneratedPasswords

(* s_s001 and an unknown name try every password; the principal only ever  *)
(* logs in with the right one, which gives the registry a second user      *)
LoginInputs == (LoginNames \X Passwords) \cup {<<"principal", "Pass@123">>}

IsLocked_EndsEarly(account) ==
  account.locked_until # NoTime /\ account.locked_until > now + 1

(* auth.py:26 *)
IsLocked(account) ==
  account.locked_until # NoTime /\ account.locked_until > now

FailedAttempt_LocksLate(account) ==
  [account EXCEPT
     !.failed_attempts = @ + 1,
     !.locked_until = IF account.failed_attempts + 1 > LOCKOUT_THRESHOLD
                      THEN now + LOCKOUT_MINUTES ELSE @]

FailedAttempt_LocksOnce(account) ==
  [account EXCEPT
     !.failed_attempts = @ + 1,
     !.locked_until = IF account.failed_attempts + 1 = LOCKOUT_THRESHOLD
                      THEN now + LOCKOUT_MINUTES ELSE @]

(* auth.py:30-32 *)
FailedAttempt(account) ==
  [account EXCEPT
     !.failed_attempts = @ + 1,
     !.locked_until = IF account.failed_attempts + 1 >= LOCKOUT_THRESHOLD
                      THEN now + LOCKOUT_MINUTES ELSE @]

SuccessfulLogin_KeepsCount(account) ==
  [account EXCEPT !.locked_until = NoTime]

SuccessfulLogin_KeepsLock(account) ==
  [account EXCEPT !.failed_attempts = 0]

SuccessfulLogin_Acknowledges(account) ==
  [account EXCEPT !.failed_attempts = 0, !.locked_until = NoTime,
                  !.force_password_change = FALSE]

(* auth.py:35-36 *)
SuccessfulLogin(account) ==
  [account EXCEPT !.failed_attempts = 0, !.locked_until = NoTime]

(* generate_random_password(32): a token no call has returned before *)
NewToken == minted + 1

authenticate_TellsUnknown(username, password) ==
  /\ Idle /\ UNCHANGED threads
  /\ UNCHANGED <<students, grades, audit_logs, now>>
  /\ IF username \notin DOMAIN accounts
     THEN /\ resp' = Raise("authenticate", 401, "account_not_found")
          /\ UNCHANGED <<accounts, tokens, minted>>
     ELSE IF IsLocked(accounts[username])
     THEN /\ resp' = Raise("authenticate", 423, "bad_credentials_or_locked")
          /\ UNCHANGED <<accounts, tokens, minted>>
     ELSE IF ~verify_password(password, accounts[username].password_hash)
     THEN /\ accounts' = [accounts EXCEPT ![username] = FailedAttempt(@)]
          /\ resp' = Raise("authenticate", 401, "bad_credentials")
          /\ UNCHANGED <<tokens, minted>>
     ELSE /\ minted < MaxTokens
          /\ accounts' = [accounts EXCEPT ![username] = SuccessfulLogin(@)]
          /\ minted' = minted + 1
          /\ tokens' = tokens @@ (NewToken :> username)
          /\ resp' = Return("authenticate",
                            [token |-> NewToken, role |-> accounts[username].role,
                             must_change_password |->
                               accounts[username].force_password_change])

authenticate(username, password) ==
  /\ Idle /\ UNCHANGED threads
  /\ UNCHANGED <<students, grades, audit_logs, now>>
  /\ IF username \notin DOMAIN accounts
     THEN /\ resp' = Raise("authenticate", 401, "bad_credentials")
          /\ UNCHANGED <<accounts, tokens, minted>>
     ELSE IF IsLocked(accounts[username])
     THEN /\ resp' = Raise("authenticate", 423, "bad_credentials_or_locked")
          /\ UNCHANGED <<accounts, tokens, minted>>
     ELSE IF ~verify_password(password, accounts[username].password_hash)
     THEN /\ accounts' = [accounts EXCEPT ![username] = FailedAttempt(@)]
          /\ resp' = Raise("authenticate", 401, "bad_credentials")
          /\ UNCHANGED <<tokens, minted>>
     ELSE /\ minted < MaxTokens
          /\ accounts' = [accounts EXCEPT ![username] = SuccessfulLogin(@)]
          /\ minted' = minted + 1
          /\ tokens' = tokens @@ (NewToken :> username)
          /\ resp' = Return("authenticate",
                            [token |-> NewToken, role |-> accounts[username].role,
                             must_change_password |->
                               accounts[username].force_password_change])

TokenInputs == 1..(MaxTokens + 1)

get_account_of_ExpiresOnLock(token) ==
  IF token \notin DOMAIN tokens
  THEN Raise("get_account", 401, "not_logged_in")
  ELSE IF IsLocked(accounts[tokens[token]])
  THEN Raise("get_account", 401, "not_logged_in")
  ELSE Return("get_account", accounts[tokens[token]])

(* auth.py:43-50; the value is the account or the AppError *)
get_account_of(token) ==
  IF token \notin DOMAIN tokens
  THEN Raise("get_account", 401, "not_logged_in")
  ELSE IF tokens[token] \notin DOMAIN accounts
  THEN Raise("get_account", 401, "not_logged_in")
  ELSE Return("get_account", accounts[tokens[token]])

get_account(token) ==
  /\ Idle /\ UNCHANGED threads
  /\ resp' = get_account_of(token)
  /\ UNCHANGED <<accounts, tokens, minted, students, grades, audit_logs, now>>

require_role(token, role) ==
  /\ Idle /\ UNCHANGED threads
  /\ resp' = IF get_account_of(token).status # 200
             THEN get_account_of(token)
             ELSE IF get_account_of(token).value.role # role
             THEN Raise("require_role", 403, "forbidden")
             ELSE Return("require_role", get_account_of(token).value)
  /\ UNCHANGED <<accounts, tokens, minted, students, grades, audit_logs, now>>

NewPasswords == {"New@456", "Pass@123"}

change_password_KeepsFlag(username, old_password, new_password) ==
  /\ Idle /\ UNCHANGED threads
  /\ UNCHANGED <<tokens, minted, students, grades, audit_logs, now>>
  /\ IF ~verify_password(old_password, accounts[username].password_hash)
     THEN /\ resp' = Raise("change_password", 400, "old_password_incorrect")
          /\ UNCHANGED accounts
     ELSE /\ \E salt \in Salts :
               accounts' = [accounts EXCEPT ![username] =
                 [@ EXCEPT !.password_hash = hash_password(new_password, salt),
                           !.failed_attempts = 0,
                           !.locked_until = NoTime]]
          /\ resp' = Return("change_password", NoValue)

change_password(username, old_password, new_password) ==
  /\ Idle /\ UNCHANGED threads
  /\ UNCHANGED <<tokens, minted, students, grades, audit_logs, now>>
  /\ IF ~verify_password(old_password, accounts[username].password_hash)
     THEN /\ resp' = Raise("change_password", 400, "old_password_incorrect")
          /\ UNCHANGED accounts
     ELSE /\ \E salt \in Salts :
               accounts' = [accounts EXCEPT ![username] =
                 [@ EXCEPT !.password_hash = hash_password(new_password, salt),
                           !.force_password_change = FALSE,
                           !.failed_attempts = 0,
                           !.locked_until = NoTime]]
          /\ resp' = Return("change_password", NoValue)

reset_password_KeepsLock(username) ==
  /\ Idle /\ UNCHANGED threads
  /\ UNCHANGED <<tokens, minted, students, grades, audit_logs, now>>
  /\ IF username \notin DOMAIN accounts
     THEN /\ resp' = Raise("reset_password", 404, "account_not_found")
          /\ UNCHANGED accounts
     ELSE \E new_password \in GeneratedPasswords, salt \in Salts :
            /\ ~verify_password(new_password, accounts[username].password_hash)
            /\ accounts' = [accounts EXCEPT ![username] =
                 [@ EXCEPT !.password_hash = hash_password(new_password, salt),
                           !.force_password_change = TRUE]]
            /\ resp' = Return("reset_password", [new_password |-> new_password])

(* the 12 random characters differ from the password they replace *)
reset_password(username) ==
  /\ Idle /\ UNCHANGED threads
  /\ UNCHANGED <<tokens, minted, students, grades, audit_logs, now>>
  /\ IF username \notin DOMAIN accounts
     THEN /\ resp' = Raise("reset_password", 404, "account_not_found")
          /\ UNCHANGED accounts
     ELSE \E new_password \in GeneratedPasswords, salt \in Salts :
            /\ ~verify_password(new_password, accounts[username].password_hash)
            /\ accounts' = [accounts EXCEPT ![username] =
                 [@ EXCEPT !.password_hash = hash_password(new_password, salt),
                           !.force_password_change = TRUE,
                           !.failed_attempts = 0,
                           !.locked_until = NoTime]]
            /\ resp' = Return("reset_password", [new_password |-> new_password])

logout_Everyone(token) ==
  /\ Idle /\ UNCHANGED threads
  /\ tokens' = [t \in {} |-> ""]
  /\ resp' = Return("logout", NoValue)
  /\ UNCHANGED <<accounts, minted, students, grades, audit_logs, now>>

(* _tokens.pop(token, None) *)
logout(token) ==
  /\ Idle /\ UNCHANGED threads
  /\ tokens' = [t \in DOMAIN tokens \ {token} |-> tokens[t]]
  /\ resp' = Return("logout", NoValue)
  /\ UNCHANGED <<accounts, minted, students, grades, audit_logs, now>>

NextAuth ==
  \/ Respond
  \/ \E d \in TickSteps : Tick(d)
  \/ \E i \in LoginInputs : authenticate(i[1], i[2])
  \/ \E t \in TokenInputs : get_account(t)
  \/ \E t \in TokenInputs, r \in {Role.STUDENT, Role.PRINCIPAL} : require_role(t, r)
  \/ \E u \in LoginNames \cap Usernames, o \in Passwords, n \in NewPasswords :
       change_password(u, o, n)
  \/ \E u \in LoginNames : reset_password(u)
  \/ \E t \in TokenInputs : logout(t)

SpecAuth == Init /\ [][NextAuth]_vars

----------------------------------------------------------------------------
(* Python floats, in hundredths *)

(* the ties x.x5 whose nearest double lies above the decimal, so that      *)
(* round(x, 1) goes up: round(59.95, 1) = 60.0, round(85.55, 1) = 85.5     *)
TiesAbove == {5995, 9995}

(* round(score, 1); round(nan, 1) is nan *)
Round1(x) ==
  IF x = NaN THEN NaN
  ELSE LET q == x \div 10
           r == x % 10
       IN IF r < 5 THEN 10 * q
          ELSE IF r > 5 THEN 10 * (q + 1)
          ELSE IF x \in TiesAbove THEN 10 * (q + 1) ELSE 10 * q

OutOfRange_Never(score) == FALSE
OutOfRange_AboveOnly(score) == score # NaN /\ score > 100 * 100

(* services.py:145: score < 0 or score > 100; both are False for nan *)
OutOfRange(score) == score # NaN /\ (score < 0 \/ score > 100 * 100)

----------------------------------------------------------------------------
(* app/services.py: access policy *)

Ok == [status |-> 200, detail |-> "ok"]
Err(status_code, detail) == [status |-> status_code, detail |-> detail]

_require_exam_Any(exam_id) == Ok

_require_exam(exam_id) ==
  IF exam_id \notin DOMAIN data_exams THEN Err(404, "exam_not_found") ELSE Ok

_require_subject(subject_code) ==
  IF subject_code \notin data_subjects THEN Err(404, "subject_not_found") ELSE Ok

_require_student(student_no) ==
  IF student_no \notin DOMAIN students THEN Err(404, "student_not_found") ELSE Ok

_teacher_for_account(account) ==
  IF account.role # Role.TEACHER
  THEN [status |-> 403, detail |-> "forbidden",
        teacher_id |-> "None", subjects |-> {}, classes |-> {}]
  ELSE IF account.bind_id \notin DOMAIN data_teachers
  THEN [status |-> 403, detail |-> "teacher_unbound",
        teacher_id |-> "None", subjects |-> {}, classes |-> {}]
  ELSE [status |-> 200, detail |-> "ok",
        teacher_id |-> data_teachers[account.bind_id].teacher_id,
        subjects |-> data_teachers[account.bind_id].subjects,
        classes |-> data_teachers[account.bind_id].classes]

_grade_key(exam_id, subject_code, student_no) ==
  <<exam_id, subject_code, student_no>>

KeyOf(grade) == _grade_key(grade.exam_id, grade.subject_code, grade.student_no)

HasKey_Never(gs, key) == FALSE

(* data.grades is a dict: one Grade per key, kept in insertion order *)
HasKey(gs, key) == \E i \in 1..Len(gs) : KeyOf(gs[i]) = key
IndexOf(gs, key) == CHOOSE i \in 1..Len(gs) : KeyOf(gs[i]) = key

_record_log_Prepends(logs, action, actor, details) ==
  <<[timestamp |-> now, actor |-> actor, action |-> action, details |-> details]>>
    \o logs

_record_log(logs, action, actor, details) ==
  Append(logs, [timestamp |-> now, actor |-> actor, action |-> action,
                details |-> details])

SubjectInScope_Any(subject_code, subjects) == TRUE
ClassInScope_Any(class_name, classes) == TRUE

(* services.py:83, 138, 280: the subject is one of the teacher's *)
SubjectInScope(subject_code, subjects) == subject_code \in subjects

(* services.py:78, 142, 288: the class is one of the teacher's *)
ClassInScope(class_name, classes) == class_name \in classes

----------------------------------------------------------------------------
(* app/services.py: grade ledger *)

UpdateFailed(gs, logs, e) ==
  [status |-> e.status, detail |-> e.detail, grades |-> gs, audit_logs |-> logs,
   value |-> NoValue]

UpdateExisting_Unpublishes(gs, logs, teacher_id, key, rounded_score) ==
  LET i == IndexOf(gs, key)
      updated == [gs[i] EXCEPT !.score = rounded_score, !.updated_at = now,
                               !.created_by = teacher_id, !.published = FALSE]
  IN [status |-> 200, detail |-> "ok",
      grades |-> [gs EXCEPT ![i] = updated],
      audit_logs |-> _record_log(logs, AuditAction.GRADE_UPDATED, teacher_id,
                       [exam_id |-> key[1], subject_code |-> key[2],
                        student_no |-> key[3], old_score |-> gs[i].score,
                        new_score |-> updated.score]),
      value |-> updated]

UpdateExisting_LogsNewAsOld(gs, logs, teacher_id, key, rounded_score) ==
  LET i == IndexOf(gs, key)
      updated == [gs[i] EXCEPT !.score = rounded_score, !.updated_at = now,
                               !.created_by = teacher_id]
  IN [status |-> 200, detail |-> "ok",
      grades |-> [gs EXCEPT ![i] = updated],
      audit_logs |-> _record_log(logs, AuditAction.GRADE_UPDATED, teacher_id,
                       [exam_id |-> key[1], subject_code |-> key[2],
                        student_no |-> key[3], old_score |-> updated.score,
                        new_score |-> updated.score]),
      value |-> updated]

(* services.py:152-166 *)
UpdateExisting(gs, logs, teacher_id, key, rounded_score) ==
  LET i == IndexOf(gs, key)
      old_score == gs[i].score
      updated == [gs[i] EXCEPT !.score = rounded_score, !.updated_at = now,
                               !.created_by = teacher_id]
  IN [status |-> 200, detail |-> "ok",
      grades |-> [gs EXCEPT ![i] = updated],
      audit_logs |-> _record_log(logs, AuditAction.GRADE_UPDATED, teacher_id,
                       [exam_id |-> key[1], subject_code |-> key[2],
                        student_no |-> key[3], old_score |-> old_score,
                        new_score |-> updated.score]),
      value |-> updated]

(* services.py:168-187 *)
CreateGrade(gs, logs, teacher_id, key, rounded_score) ==
  LET grade == [exam_id |-> key[1], subject_code |-> key[2], student_no |-> key[3],
                score |-> rounded_score, created_by |-> teacher_id,
                created_at |-> now, updated_at |-> now, published |-> FALSE]
  IN [status |-> 200, detail |-> "ok",
      grades |-> Append(gs, grade),
      audit_logs |-> _record_log(logs, AuditAction.GRADE_CREATED, teacher_id,
                       [exam_id |-> key[1], subject_code |-> key[2],
                        student_no |-> key[3], score |-> grade.score]),
      value |-> grade]

(* teacher_update_grade on the ledger gs and the log logs: the error or    *)
(* the Grade returned, and the ledger and the log it leaves                *)
UpdateGrade(gs, logs, account, exam_id, subject_code, student_no, score) ==
  LET t == _teacher_for_account(account) IN
  IF t.status # 200 THEN UpdateFailed(gs, logs, t)
  ELSE IF _require_exam(exam_id).status # 200
  THEN UpdateFailed(gs, logs, _require_exam(exam_id))
  ELSE IF _require_subject(subject_code).status # 200
  THEN UpdateFailed(gs, logs, _require_subject(subject_code))
  ELSE IF _require_student(student_no).status # 200
  THEN UpdateFailed(gs, logs, _require_student(student_no))
  ELSE IF ~SubjectInScope(subject_code, t.subjects)
  THEN UpdateFailed(gs, logs, Err(403, "subject_not_allowed"))
  ELSE IF ~ClassInScope(students[student_no].class_name, t.classes)
  THEN UpdateFailed(gs, logs, Err(403, "class_not_allowed"))
  ELSE IF OutOfRange(score)
  THEN UpdateFailed(gs, logs, Err(400, "score_out_of_range"))
  ELSE LET key == _grade_key(exam_id, subject_code, student_no) IN
       IF HasKey(gs, key)
       THEN UpdateExisting(gs, logs, t.teacher_id, key, Round1(score))
       ELSE CreateGrade(gs, logs, t.teacher_id, key, Round1(score))

teacher_update_grade_Notifies(username, exam_id, subject_code, student_no, score) ==
  LET r == UpdateGrade(grades, audit_logs, accounts[username], exam_id,
                       subject_code, student_no, score)
  IN /\ Idle /\ UNCHANGED threads
     /\ Len(r.audit_logs) <= MaxLog
     /\ grades' = r.grades
     /\ audit_logs' = r.audit_logs
     /\ resp' = [op |-> "teacher_update_grade", status |-> r.status,
                 detail |-> r.detail, value |-> r.value]
     /\ students' = IF r.status = 200 /\ r.value.published
                    THEN [students EXCEPT
                            ![student_no].has_unread_published_grades = TRUE]
                    ELSE students
     /\ UNCHANGED <<accounts, tokens, minted, now>>

teacher_update_grade(username, exam_id, subject_code, student_no, score) ==
  LET r == UpdateGrade(grades, audit_logs, accounts[username], exam_id,
                       subject_code, student_no, score)
  IN /\ Idle /\ UNCHANGED threads
     /\ Len(r.audit_logs) <= MaxLog
     /\ grades' = r.grades
     /\ audit_logs' = r.audit_logs
     /\ resp' = [op |-> "teacher_update_grade", status |-> r.status,
                 detail |-> r.detail, value |-> r.value]
     /\ UNCHANGED <<accounts, tokens, minted, students, now>>

PublishMatches_AnyClass(grade, exam_id, subject_code, classes) ==
  grade.exam_id = exam_id /\ grade.subject_code = subject_code

PublishMatches_AnySubject(grade, exam_id, subject_code, classes) ==
  /\ grade.exam_id = exam_id
  /\ grade.student_no \in DOMAIN students
  /\ ClassInScope(students[grade.student_no].class_name, classes)

(* services.py:286-288: the grade is one the publish call touches *)
PublishMatches(grade, exam_id, subject_code, classes) ==
  /\ grade.exam_id = exam_id
  /\ grade.subject_code = subject_code
  /\ grade.student_no \in DOMAIN students
  /\ ClassInScope(students[grade.student_no].class_name, classes)

NewlyNotified_Nobody(gs, matched) == {}

NewlyNotified_Everyone(gs, matched) == {gs[i].student_no : i \in matched}

(* services.py:289-290: the students whose flag the loop sets *)
NewlyNotified(gs, matched) ==
  {gs[i].student_no : i \in {j \in matched : ~gs[j].published}}

MarkPublished_Not(grade) == grade

(* services.py:291 *)
MarkPublished(grade) == [grade EXCEPT !.published = TRUE]

publish_grades(username, exam_id, subject_code) ==
  LET t == _teacher_for_account(accounts[username])
      matched == {i \in 1..Len(grades) :
                    PublishMatches(grades[i], exam_id, subject_code, t.classes)}
      updated == Cardinality(matched)
      fail(e) == /\ resp' = Raise("publish_grades", e.status, e.detail)
                 /\ UNCHANGED <<students, grades, audit_logs>>
  IN /\ Idle /\ UNCHANGED threads
     /\ UNCHANGED <<accounts, tokens, minted, now>>
     /\ IF t.status # 200 THEN fail(t)
        ELSE IF ~SubjectInScope(subject_code, t.subjects)
        THEN fail(Err(403, "subject_publish_not_allowed"))
        ELSE IF _require_exam(exam_id).status # 200
        THEN fail(_require_exam(exam_id))
        ELSE IF updated = 0 THEN fail(Err(404, "no_grade_records"))
        ELSE /\ Len(audit_logs) < MaxLog
             /\ students' = [s \in DOMAIN students |->
                  IF s \in NewlyNotified(grades, matched)
                  THEN [students[s] EXCEPT !.has_unread_published_grades = TRUE]
                  ELSE students[s]]
             /\ grades' = [i \in 1..Len(grades) |->
                  IF i \in matched THEN MarkPublished(grades[i]) ELSE grades[i]]
             /\ audit_logs' = _record_log(audit_logs, AuditAction.GRADE_PUBLISHED,
                  t.teacher_id,
                  [exam_id |-> exam_id, subject_code |-> subject_code,
                   count |-> updated])
             /\ resp' = Return("publish_grades", [count |-> updated])

----------------------------------------------------------------------------
(* sorted(): a stable sort of records [k, v] by the integer key k *)

InsertByKey(sorted, x) ==
  LET n == Cardinality({i \in 1..Len(sorted) : sorted[i].k <= x.k})
  IN SubSeq(sorted, 1, n) \o <<x>> \o SubSeq(sorted, n + 1, Len(sorted))

RECURSIVE StableSort(_)
StableSort(seq) ==
  IF seq = << >> THEN << >>
  ELSE InsertByKey(StableSort(SubSeq(seq, 1, Len(seq) - 1)), seq[Len(seq)])

Values(seq) == [i \in 1..Len(seq) |-> seq[i].v]

(* the order of the codes as Python compares strings *)
SubjectRank == [CHN |-> 1, MTH |-> 2]
StudentRank == [S001 |-> 1, S002 |-> 2, S004 |-> 4]

RECURSIVE Sum(_)
Sum(seq) == IF seq = << >> THEN 0 ELSE seq[1] + Sum(Tail(seq))

(* round(mean(scores), 2) of a non-empty list; a nan among them gives nan. *)
(* Stored scores are multiples of 0.1, so with up to three of them the     *)
(* mean is never half a hundredth                                          *)
RoundedMean(scores) ==
  IF \E i \in 1..Len(scores) : scores[i] = NaN THEN NaN
  ELSE (2 * Sum(scores) + Len(scores)) \div (2 * Len(scores))

----------------------------------------------------------------------------
(* app/services.py: the listings *)

_grades_for_student(gs, student_no) ==
  SelectSeq(gs, LAMBDA grade : grade.student_no = student_no)

IsPublished_Always(grade) == TRUE

(* services.py:95 *)
IsPublished(grade) == grade.published

ClassAverage_OfPublished(gs, grade, class_name) ==
  LET class_scores ==
        SelectSeq(gs, LAMBDA g :
          /\ g.exam_id = grade.exam_id
          /\ g.subject_code = grade.subject_code
          /\ g.published
          /\ students[g.student_no].class_name = class_name)
  IN IF class_scores = << >> THEN grade.score
     ELSE RoundedMean([i \in 1..Len(class_scores) |-> class_scores[i].score])

(* services.py:107-114 *)
ClassAverage(gs, grade, class_name) ==
  LET class_scores ==
        SelectSeq(gs, LAMBDA g :
          /\ g.exam_id = grade.exam_id
          /\ g.subject_code = grade.subject_code
          /\ students[g.student_no].class_name = class_name)
  IN IF class_scores = << >> THEN grade.score
     ELSE RoundedMean([i \in 1..Len(class_scores) |-> class_scores[i].score])

StudentGradeView(gs, grade, class_name) ==
  [exam_id |-> grade.exam_id, exam_date |-> data_exams[grade.exam_id].exam_date,
   subject_code |-> grade.subject_code, score |-> grade.score,
   class_average |-> ClassAverage(gs, grade, class_name)]

Terms == {"None", "2024-2"}
ExamFilters == {"None", "EX2025N"}

(* services.py:95-127: the rows of the response *)
StudentViews(gs, student, term, exam_id) ==
  LET published == SelectSeq(_grades_for_student(gs, student.student_no), IsPublished)
      by_term == IF term # "None"
                 THEN SelectSeq(published,
                        LAMBDA g : data_exams[g.exam_id].term = term)
                 ELSE published
      relevant == IF exam_id # "None"
                  THEN SelectSeq(by_term, LAMBDA g : g.exam_id = exam_id)
                  ELSE by_term
      known == SelectSeq(relevant, LAMBDA g : g.exam_id \in DOMAIN data_exams)
      views == [i \in 1..Len(known) |->
                  [k |-> data_exams[known[i].exam_id].exam_date * 10
                           + SubjectRank[known[i].subject_code],
                   v |-> StudentGradeView(gs, known[i], student.class_name)]]
  IN Values(StableSort(views))

list_student_grades_KeepsWhenFiltered(username, term, exam_id) ==
  LET account == accounts[username] IN
  /\ Idle /\ UNCHANGED threads
  /\ UNCHANGED <<accounts, tokens, minted, grades, audit_logs, now>>
  /\ IF account.role # Role.STUDENT
     THEN /\ resp' = Raise("list_student_grades", 403, "forbidden")
          /\ UNCHANGED students
     ELSE IF account.bind_id \notin DOMAIN students
     THEN /\ resp' = Raise("list_student_grades", 404, "student_not_found")
          /\ UNCHANGED students
     ELSE /\ resp' = Return("list_student_grades",
               [has_unread |-> students[account.bind_id].has_unread_published_grades,
                grades |-> StudentViews(grades, students[account.bind_id],
                                        term, exam_id)])
          /\ students' = IF term = "None" /\ exam_id = "None"
                          THEN [students EXCEPT
                                  ![account.bind_id].has_unread_published_grades = FALSE]
                          ELSE students

list_student_grades(username, term, exam_id) ==
  LET account == accounts[username] IN
  /\ Idle /\ UNCHANGED threads
  /\ UNCHANGED <<accounts, tokens, minted, grades, audit_logs, now>>
  /\ IF account.role # Role.STUDENT
     THEN /\ resp' = Raise("list_student_grades", 403, "forbidden")
          /\ UNCHANGED students
     ELSE IF account.bind_id \notin DOMAIN students
     THEN /\ resp' = Raise("list_student_grades", 404, "student_not_found")
          /\ UNCHANGED students
     ELSE /\ resp' = Return("list_student_grades",
               [has_unread |-> students[account.bind_id].has_unread_published_grades,
                grades |-> StudentViews(grades, students[account.bind_id],
                                        term, exam_id)])
          /\ students' = [students EXCEPT
               ![account.bind_id].has_unread_published_grades = FALSE]

(* services.py:73-84 *)
_visible_grades_for_teacher(gs, subjects, classes) ==
  LET student_ids == {s \in DOMAIN students :
                        ClassInScope(students[s].class_name, classes)}
  IN SelectSeq(gs, LAMBDA grade :
       SubjectInScope(grade.subject_code, subjects)
       /\ grade.student_no \in student_ids)

TeacherGradeView(grade) ==
  [student_no |-> grade.student_no,
   class_name |-> students[grade.student_no].class_name,
   subject_code |-> grade.subject_code, score |-> grade.score,
   published |-> grade.published]

ClassFilters == {"None", "Class 2"}

(* services.py:249-275 with sort_by = "student_no" *)
TeacherViews(gs, subjects, classes, exam_id, class_name) ==
  LET visible == _visible_grades_for_teacher(gs, subjects, classes)
      by_exam == IF exam_id # "None"
                 THEN SelectSeq(visible, LAMBDA g : g.exam_id = exam_id)
                 ELSE visible
      by_class == IF class_name # "None"
                  THEN SelectSeq(by_exam,
                         LAMBDA g : students[g.student_no].class_name = class_name)
                  ELSE by_exam
      views == [i \in 1..Len(by_class) |->
                  [k |-> StudentRank[by_class[i].student_no] * 10
                           + SubjectRank[by_class[i].subject_code],
                   v |-> TeacherGradeView(by_class[i])]]
  IN Values(StableSort(views))

teacher_list_grades(username, exam_id, class_name) ==
  LET t == _teacher_for_account(accounts[username]) IN
  /\ Idle /\ UNCHANGED threads
  /\ UNCHANGED <<accounts, tokens, minted, students, grades, audit_logs, now>>
  /\ resp' = IF t.status # 200
             THEN Raise("teacher_list_grades", t.status, t.detail)
             ELSE Return("teacher_list_grades",
                         [views |-> TeacherViews(grades, t.subjects, t.classes,
                                                 exam_id, class_name)])

----------------------------------------------------------------------------
(* app/services.py: teacher_import_grades.  A row is what csv.DictReader   *)
(* yields: four text fields, Missing for a column the line does not have.  *)

Missing == "<missing>"

Row(exam_id, subject_code, student_no, score) ==
  [exam_id |-> exam_id, subject_code |-> subject_code,
   student_no |-> student_no, score |-> score]

(* str.strip() on the texts of the model *)
strip(text) ==
  CASE text = " S002 " -> "S002"
    [] text = " 96" -> "96"
    [] text = " s_s001 " -> "s_s001"
    [] OTHER -> text

(* float() on a stripped text: the texts it accepts *)
FloatTexts == {"85", "70", "96", "999", "59.95", "nan"}

float(text) ==
  CASE text = "85" -> 8500
    [] text = "70" -> 7000
    [] text = "96" -> 9600
    [] text = "999" -> 99900
    [] text = "59.95" -> 5995
    [] text = "nan" -> NaN

(* services.py:195-202: the row raises inside the first try *)
RowMalformed(row) ==
  \/ Missing \in {row.exam_id, row.subject_code, row.student_no, row.score}
  \/ strip(row.score) \notin FloatTexts

ImportFrom_Aborts(rows, pos, account, gs, logs, processed, errors) ==
  IF pos > Len(rows)
  THEN [grades |-> gs, audit_logs |-> logs, processed |-> processed,
        errors |-> errors]
  ELSE [grades |-> gs, audit_logs |-> logs, processed |-> processed,
        errors |-> Append(errors, [line |-> pos + 1, kind |-> "format_error",
                                   detail |-> "exception"])]

(* services.py:194-209, from the row at position pos (line pos + 1) *)
RECURSIVE ImportFrom(_, _, _, _, _, _, _)
ImportFrom(rows, pos, account, gs, logs, processed, errors) ==
  IF pos > Len(rows)
  THEN [grades |-> gs, audit_logs |-> logs, processed |-> processed,
        errors |-> errors]
  ELSE IF RowMalformed(rows[pos])
  THEN ImportFrom(rows, pos + 1, account, gs, logs, processed,
         Append(errors, [line |-> pos + 1, kind |-> "format_error",
                         detail |-> "exception"]))
  ELSE LET r == UpdateGrade(gs, logs, account, strip(rows[pos].exam_id),
                            strip(rows[pos].subject_code),
                            strip(rows[pos].student_no),
                            float(strip(rows[pos].score)))
       IN IF r.status # 200
          THEN ImportFrom(rows, pos + 1, account, gs, logs, processed,
                 Append(errors, [line |-> pos + 1, kind |-> "import_failed",
                                 detail |-> r.detail]))
          ELSE ImportFrom(rows, pos + 1, account, r.grades, r.audit_logs,
                          processed + 1, errors)

teacher_import_grades(username, rows) ==
  LET r == ImportFrom(rows, 1, accounts[username], grades, audit_logs, 0, << >>)
  IN /\ Idle /\ UNCHANGED threads
     /\ Len(r.audit_logs) <= MaxLog
     /\ grades' = r.grades
     /\ audit_logs' = r.audit_logs
     /\ resp' = Return("teacher_import_grades",
                       [processed |-> r.processed, errors |-> r.errors])
     /\ UNCHANGED <<accounts, tokens, minted, students, now>>

----------------------------------------------------------------------------
(* The requests of the model *)

Actors == {"principal", "t_chn", "t_mth", "t_new", "s_s001"}
Readers == {"s_s001", "s_s002", "s_gone", "t_chn"}

ExamInputs == {"EX2025M", "EX2025N", "EXBAD"}
SubjectInputs == {"CHN", "MTH", "BADSUB"}
StudentInputs == {"S001", "S004", "BADSTU"}
ScoreInputs == {-1, 5995, 10004}

(* valid calls of both teachers on the new exam, with one argument varied  *)
(* over its inputs at a time                                               *)
UpdateInputs ==
  (Actors \X {"EX2025N"} \X {"CHN"} \X {"S001"} \X {5995})
  \cup ({"t_mth"} \X {"EX2025N", "EXBAD"} \X {"MTH"} \X StudentInputs \X {5995})
  \cup ({"t_chn"} \X {"EX2025N"} \X SubjectInputs \X {"S001"} \X ScoreInputs)
  \cup ({"s_s001", "principal", "t_new"} \X {"EXBAD"} \X {"CHN"} \X {"S001"} \X {5995})

PublishInputs ==
  (Actors \X {"EX2025N"} \X {"CHN"})
  \cup ({"t_mth"} \X ExamInputs \X {"MTH"})
  \cup ({"t_chn"} \X {"EX2025N"} \X SubjectInputs)
  \cup ({"t_chn", "s_s001"} \X {"EXBAD"} \X {"MTH"})

ListInputs ==
  ({"s_s001"} \X Terms \X ExamFilters) \cup (Readers \X {"None"} \X {"None"})

TeacherListInputs ==
  (Actors \X {"None"} \X {"None"}) \cup ({"t_chn"} \X ExamFilters \X ClassFilters)

(* the rows of section 8 of the specification, and rows with an unparsable *)
(* score, a padded field and a nan                                         *)
SpecRows ==
  <<Row("EX2025M", "CHN", "S001", "85"), Row("EX2025M", "CHN", "BADSTU", "70"),
    Row("EX2025M", "CHN", "S002", "999")>>
OddRows ==
  <<Row("EX2025N", "MTH", "S001", "abc"), Row("EX2025N", "MTH", " S002 ", "nan")>>
ImportInputs == {SpecRows, OddRows}

Next ==
  \/ Respond
  \/ \E i \in UpdateInputs : teacher_update_grade(i[1], i[2], i[3], i[4], i[5])
  \/ \E a \in Actors, rows \in ImportInputs : teacher_import_grades(a, rows)
  \/ \E i \in PublishInputs : publish_grades(i[1], i[2], i[3])
  \/ \E i \in ListInputs : list_student_grades(i[1], i[2], i[3])
  \/ \E i \in TeacherListInputs : teacher_list_grades(i[1], i[2], i[3])

(* services.py never branches on the clock: under Spec every call falls in *)
(* the minute the module was loaded, under SpecClock time passes           *)
Spec == Init /\ [][Next]_vars

(* the writes followed while the clock moves: one key written with two     *)
(* scores, by its teacher and by others                                    *)
ClockUpdateInputs ==
  ({"t_chn"} \X {"EX2025N"} \X {"CHN"} \X {"S001"} \X (ScoreInputs \cup {8555}))
  \cup ({"t_mth", "s_s001"} \X {"EX2025N"} \X {"CHN", "MTH"} \X {"S001"} \X {5995})
ClockImportInputs == {<<"t_chn", SpecRows>>, <<"t_mth", OddRows>>}
ClockPublishInputs == {"t_chn", "t_mth"} \X {"EX2025N"} \X {"CHN"}

NextClock ==
  \/ Respond
  \/ Tick(LOCKOUT_MINUTES)
  \/ \E i \in ClockUpdateInputs : teacher_update_grade(i[1], i[2], i[3], i[4], i[5])
  \/ \E i \in ClockImportInputs : teacher_import_grades(i[1], i[2])
  \/ \E i \in ClockPublishInputs : publish_grades(i[1], i[2], i[3])

SpecClock == Init /\ [][NextClock]_vars

----------------------------------------------------------------------------
(* app/services.py: exports and the audit log *)

(* services.py:224-237: the row written for a grade; the names of exam,    *)
(* subject and student are functions of their ids and are left out        *)
TeacherExportRow(grade) ==
  [exam_id |-> grade.exam_id, subject_code |-> grade.subject_code,
   student_no |-> grade.student_no,
   class_name |-> students[grade.student_no].class_name, score |-> grade.score]

(* services.py:215-219 *)
TeacherExportGrades(gs, subjects, classes, exam_id, class_name) ==
  LET visible == _visible_grades_for_teacher(gs, subjects, classes)
      by_exam == IF exam_id # "None"
                 THEN SelectSeq(visible, LAMBDA g : g.exam_id = exam_id)
                 ELSE visible
  IN IF class_name # "None"
     THEN SelectSeq(by_exam,
            LAMBDA g : students[g.student_no].class_name = class_name)
     ELSE by_exam

teacher_export_grades(username, exam_id, class_name) ==
  LET account == accounts[username]
      t == _teacher_for_account(account)
      selected == TeacherExportGrades(grades, t.subjects, t.classes, exam_id,
                                      class_name)
  IN /\ Idle /\ UNCHANGED threads
     /\ UNCHANGED <<accounts, tokens, minted, students, grades, now>>
     /\ IF t.status # 200
        THEN /\ resp' = Raise("teacher_export_grades", t.status, t.detail)
             /\ UNCHANGED audit_logs
        ELSE /\ Len(audit_logs) < MaxLog
             /\ audit_logs' = _record_log(audit_logs, AuditAction.EXPORT,
                  IF account.bind_id # "None" THEN account.bind_id
                  ELSE account.username,
                  [scope |-> "teacher", exam_id |-> exam_id,
                   class_name |-> class_name])
             /\ resp' = Return("teacher_export_grades",
                  [rows |-> [i \in 1..Len(selected) |->
                               TeacherExportRow(selected[i])]])

(* services.py:349-364 *)
GradeDetailEntry(grade) ==
  [exam_id |-> grade.exam_id, subject_code |-> grade.subject_code,
   student_no |-> grade.student_no,
   class_name |-> students[grade.student_no].class_name,
   score |-> grade.score, published |-> grade.published]

(* services.py:335-366; filters is [exam_id, class_name, subject_code] *)
principal_grade_details(gs, filters) ==
  LET kept == SelectSeq(gs, LAMBDA grade :
        /\ (filters.exam_id # "None" => grade.exam_id = filters.exam_id)
        /\ (filters.subject_code # "None"
              => grade.subject_code = filters.subject_code)
        /\ grade.student_no \in DOMAIN students
        /\ (filters.class_name # "None"
              => students[grade.student_no].class_name = filters.class_name))
  IN [i \in 1..Len(kept) |-> GradeDetailEntry(kept[i])]

Filters(exam_id, class_name, subject_code) ==
  [exam_id |-> exam_id, class_name |-> class_name, subject_code |-> subject_code]

principal_export_grades(filters) ==
  /\ Idle /\ UNCHANGED threads
  /\ Len(audit_logs) < MaxLog
  /\ audit_logs' = _record_log(audit_logs, AuditAction.EXPORT, "principal",
                      [scope |-> "principal", filters |-> filters])
  /\ resp' = Return("principal_export_grades",
                    [rows |-> principal_grade_details(grades, filters)])
  /\ UNCHANGED <<accounts, tokens, minted, students, grades, now>>

mark_password_reset(actor, username) ==
  /\ Idle /\ UNCHANGED threads
  /\ Len(audit_logs) < MaxLog
  /\ audit_logs' = _record_log(audit_logs, AuditAction.PASSWORD_RESET, actor,
                      [username |-> username])
  /\ resp' = Return("mark_password_reset", NoValue)
  /\ UNCHANGED <<accounts, tokens, minted, students, grades, now>>

(* log.details.get("subject_code") *)
DetailSubject(log) ==
  IF "subject_code" \in DOMAIN log.details THEN log.details.subject_code
  ELSE "None"

AuditVisibleToTeacher_Any(log, teacher_id, subjects) == TRUE

AuditVisibleToTeacher_GradesOnly(log, teacher_id, subjects) ==
  /\ DetailSubject(log) \in subjects
  /\ log.action \in {AuditAction.GRADE_CREATED, AuditAction.GRADE_UPDATED,
                      AuditAction.GRADE_PUBLISHED}

(* services.py:398-402 *)
AuditVisibleToTeacher(log, teacher_id, subjects) ==
  \/ log.actor = teacher_id
  \/ /\ DetailSubject(log) \in subjects
     /\ log.action \in {AuditAction.GRADE_CREATED, AuditAction.GRADE_UPDATED,
                         AuditAction.GRADE_PUBLISHED}

list_audit_logs_LogsItself(username) ==
  LET account == accounts[username]
      t == _teacher_for_account(account)
  IN /\ Idle /\ UNCHANGED threads
     /\ UNCHANGED <<accounts, tokens, minted, students, grades, now>>
     /\ Len(audit_logs) < MaxLog
     /\ audit_logs' = _record_log(audit_logs, AuditAction.EXPORT, username,
                         [scope |-> "audit"])
     /\ resp' =
          IF account.role = Role.PRINCIPAL
          THEN Return("list_audit_logs", [logs |-> audit_logs])
          ELSE IF account.role = Role.TEACHER
          THEN IF t.status # 200
               THEN Raise("list_audit_logs", t.status, t.detail)
               ELSE Return("list_audit_logs",
                      [logs |-> SelectSeq(audit_logs, LAMBDA log :
                         AuditVisibleToTeacher(log, t.teacher_id, t.subjects))])
          ELSE Raise("list_audit_logs", 403, "forbidden")

list_audit_logs(username) ==
  LET account == accounts[username]
      t == _teacher_for_account(account)
  IN /\ Idle /\ UNCHANGED threads
     /\ UNCHANGED <<accounts, tokens, minted, students, grades, audit_logs, now>>
     /\ resp' =
          IF account.role = Role.PRINCIPAL
          THEN Return("list_audit_logs", [logs |-> audit_logs])
          ELSE IF account.role = Role.TEACHER
          THEN IF t.status # 200
               THEN Raise("list_audit_logs", t.status, t.detail)
               ELSE Return("list_audit_logs",
                      [logs |-> SelectSeq(audit_logs, LAMBDA log :
                         AuditVisibleToTeacher(log, t.teacher_id, t.subjects))])
          ELSE Raise("list_audit_logs", 403, "forbidden")

AuditUpdateInputs ==
  {<<"t_chn", "EX2025N", "CHN", "S001", 5995>>,
   <<"t_mth", "EX2025N", "MTH", "S001", 5995>>}
AuditPublishInputs == {<<"t_chn", "EX2025N", "CHN">>}
ExportInputs ==
  ({"t_chn", "t_mth", "t_new", "s_s001"} \X {"None"} \X {"None"})
  \cup {<<"t_chn", "EX2025N", "Class 2">>}
PrincipalExportInputs ==
  {Filters("None", "None", "None"), Filters("EX2025M", "Class 1", "MTH")}
ResetInputs == {<<"principal", "s_s001">>}
AuditReaders == {"principal", "t_chn", "t_mth", "t_new", "s_s001"}

NextAudit ==
  \/ Respond
  \/ \E i \in AuditUpdateInputs : teacher_update_grade(i[1], i[2], i[3], i[4], i[5])
  \/ teacher_import_grades("t_chn", SpecRows)
  \/ \E i \in AuditPublishInputs : publish_grades(i[1], i[2], i[3])
  \/ \E i \in ExportInputs : teacher_export_grades(i[1], i[2], i[3])
  \/ \E f \in PrincipalExportInputs : principal_export_grades(f)
  \/ \E i \in ResetInputs : mark_password_reset(i[1], i[2])
  \/ \E a \in AuditReaders : list_audit_logs(a)

SpecAudit == Init /\ [][NextAudit]_vars

----------------------------------------------------------------------------
(* app/services.py: the principal's overview *)

(* an exception that is no AppError leaves the function *)
Escapes(op, exception) ==
  [op |-> op, status |-> 500, detail |-> exception, value |-> NoValue]

(* a > b and a < b on floats: False when either is nan *)
PyGt(a, b) == a # NaN /\ b # NaN /\ a > b
PyLt(a, b) == a # NaN /\ b # NaN /\ a < b

(* max(): the first item, replaced by each later item that is > it *)
RECURSIVE MaxFrom(_, _)
MaxFrom(best, rest) ==
  IF rest = << >> THEN best
  ELSE MaxFrom(IF PyGt(Head(rest), best) THEN Head(rest) ELSE best, Tail(rest))

max_FirstItem(scores) == Head(scores)

max(scores) == MaxFrom(Head(scores), Tail(scores))

(* min(): the first item, replaced by each later item that is < it *)
RECURSIVE MinFrom(_, _)
MinFrom(best, rest) ==
  IF rest = << >> THEN best
  ELSE MinFrom(IF PyLt(Head(rest), best) THEN Head(rest) ELSE best, Tail(rest))

min(scores) == MinFrom(Head(scores), Tail(scores))

(* services.py:306-307: score >= PASSING_SCORE is False for nan; with up   *)
(* to three scores the rate is never half a hundredth                      *)
PassRate(scores) ==
  LET passing == Cardinality({i \in 1..Len(scores) :
                    scores[i] # NaN /\ scores[i] >= PASSING_SCORE * 100})
  IN (2 * passing * 100 * 100 + Len(scores)) \div (2 * Len(scores))

(* services.py:299-308, on a non-empty list *)
_aggregate_scores(scores) ==
  [highest |-> max(scores), lowest |-> min(scores),
   average |-> RoundedMean(scores), pass_rate |-> PassRate(scores)]

(* data.exams and data.subjects in the order of the dicts *)
ExamList == <<"EX2025M", "EX2025N">>
SubjectList == <<"CHN", "MTH">>

(* services.py:316-320 *)
ScoresOf(gs, exam_id, subject_code) ==
  LET of_pair == SelectSeq(gs, LAMBDA grade :
                   grade.exam_id = exam_id /\ grade.subject_code = subject_code)
  IN [i \in 1..Len(of_pair) |-> of_pair[i].score]

(* the pairs (exam, subject) in the order of the two loops *)
PairList(exams) ==
  [k \in 1..(Len(exams) * Len(SubjectList)) |->
     <<exams[((k - 1) \div Len(SubjectList)) + 1],
       SubjectList[((k - 1) % Len(SubjectList)) + 1]>>]

(* services.py:314-331 *)
OverviewEntries(gs, exams) ==
  LET with_scores == SelectSeq(PairList(exams),
                       LAMBDA pair : ScoresOf(gs, pair[1], pair[2]) # << >>)
  IN [k \in 1..Len(with_scores) |->
        [exam_id |-> with_scores[k][1], subject_code |-> with_scores[k][2],
         stats |-> _aggregate_scores(
                     ScoresOf(gs, with_scores[k][1], with_scores[k][2]))]]

principal_overview_Checks(exam_id) ==
  /\ Idle /\ UNCHANGED threads
  /\ resp' = IF exam_id # "None" /\ exam_id \notin DOMAIN data_exams
             THEN Raise("principal_overview", 404, "exam_not_found")
             ELSE Return("principal_overview",
                    [entries |-> OverviewEntries(grades,
                       IF exam_id # "None" THEN <<exam_id>> ELSE ExamList)])
  /\ UNCHANGED <<accounts, tokens, minted, students, grades, audit_logs, now>>

(* services.py:311-332; data.exams[exam_id] raises KeyError *)
principal_overview(exam_id) ==
  /\ Idle /\ UNCHANGED threads
  /\ resp' = IF exam_id # "None" /\ exam_id \notin DOMAIN data_exams
             THEN Escapes("principal_overview", "KeyError")
             ELSE Return("principal_overview",
                    [entries |-> OverviewEntries(grades,
                       IF exam_id # "None" THEN <<exam_id>> ELSE ExamList)])
  /\ UNCHANGED <<accounts, tokens, minted, students, grades, audit_logs, now>>

OverviewInputs == {"None", "EX2025N", "EXBAD"}
PrincipalImportInputs == {<<"t_chn", SpecRows>>, <<"t_mth", OddRows>>}
PrincipalUpdateInputs ==
  {<<"t_chn", "EX2025N", "CHN", "S001", 5995>>,
   <<"t_chn", "EX2025N", "CHN", "S002", 8800>>,
   <<"t_mth", "EX2025N", "MTH", "S001", 5995>>}

NextPrincipal ==
  \/ Respond
  \/ \E i \in PrincipalUpdateInputs : teacher_update_grade(i[1], i[2], i[3], i[4], i[5])
  \/ \E i \in PrincipalImportInputs : teacher_import_grades(i[1], i[2])
  \/ \E i \in AuditPublishInputs : publish_grades(i[1], i[2], i[3])
  \/ \E e \in OverviewInputs : principal_overview(e)

SpecPrincipal == Init /\ [][NextPrincipal]_vars

(* a student's listings while its classmates' grades are written and      *)
(* published                                                               *)
ClassmateUpdateInputs ==
  {<<"t_chn", "EX2025N", "CHN", "S001", 5995>>,
   <<"t_chn", "EX2025N", "CHN", "S002", 8800>>,
   <<"t_chn", "EX2025N", "CHN", "S002", 7000>>}
ClassmatePublishInputs == {<<"t_chn", "EX2025N", "CHN">>}
ClassmateListInputs == {"s_s001", "s_s002"} \X {"None"} \X ExamFilters

NextClassmates ==
  \/ Respond
  \/ \E i \in ClassmateUpdateInputs :
       teacher_update_grade(i[1], i[2], i[3], i[4], i[5])
  \/ \E i \in ClassmatePublishInputs : publish_grades(i[1], i[2], i[3])
  \/ \E i \in ClassmateListInputs : list_student_grades(i[1], i[2], i[3])

SpecClassmates == Init /\ [][NextClassmates]_vars

(* every operation, on known and on unknown identifiers *)
KnownOrNot == {"t_chn", "s_s001"}
AnyUpdateInputs ==
  KnownOrNot \X {"EX2025N", "EXBAD"} \X {"CHN", "BADSUB"}
             \X {"S001", "BADSTU"} \X {5995, 10004}
AnyPublishInputs == KnownOrNot \X ExamInputs \X SubjectInputs
AnyListInputs == Readers \X {"None"} \X {"None", "EXBAD"}
AnyTeacherListInputs == KnownOrNot \X {"None", "EXBAD"} \X {"None", "Class 9"}
AnyExportInputs == KnownOrNot \X {"EXBAD"} \X {"Class 9"}
AnyLoginInputs == {"nobody", "s_s001"} \X {"wrong"}

NextAny ==
  \/ Respond
  \/ \E i \in AnyUpdateInputs : teacher_update_grade(i[1], i[2], i[3], i[4], i[5])
  \/ teacher_import_grades("t_chn", SpecRows)
  \/ \E i \in AnyPublishInputs : publish_grades(i[1], i[2], i[3])
  \/ \E i \in AnyListInputs : list_student_grades(i[1], i[2], i[3])
  \/ \E i \in AnyTeacherListInputs : teacher_list_grades(i[1], i[2], i[3])
  \/ \E i \in AnyExportInputs : teacher_export_grades(i[1], i[2], i[3])
  \/ principal_export_grades(Filters("EXBAD", "Class 9", "BADSUB"))
  \/ \E a \in AuditReaders : list_audit_logs(a)
  \/ \E e \in OverviewInputs : principal_overview(e)
  \/ \E i \in AnyLoginInputs : authenticate(i[1], i[2])
  \/ \E t \in TokenInputs : get_account(t)
  \/ \E t \in TokenInputs : require_role(t, Role.PRINCIPAL)
  \/ reset_password("nobody")
  \/ \E t \in TokenInputs : logout(t)

SpecAny == Init /\ [][NextAny]_vars

----------------------------------------------------------------------------
(* Calls of the core API on threads of their own. Nothing in app/ takes a  *)
(* lock, so a call is a sequence of steps, each one read or one write of   *)
(* shared state, and the steps of different threads interleave.            *)

MaxThreads == 5

(* a thread that is about to run op(args); local holds its local variables *)
Thread(op, args, local) ==
  [op |-> op, args |-> args, pc |-> "start", local |-> local, result |-> NoResp]

AtPc(t, op, pc) == threads[t].op = op /\ threads[t].pc = pc

Goto(t, pc) == threads' = [threads EXCEPT ![t].pc = pc]

(* the call returns or raises: the thread ends with that result *)
Finish(t, result) ==
  threads' = [threads EXCEPT ![t].pc = "done", ![t].result = result]

(* auth.py:21 *)
begin_authenticate(username, password) ==
  /\ Len(threads) < MaxThreads
  /\ threads' = Append(threads,
       Thread("authenticate", [username |-> username, password |-> password],
              [failed_attempts |-> 0]))
  /\ UNCHANGED <<accounts, tokens, minted, students, grades, audit_logs, now, resp>>

(* auth.py:22-29: the account, the lock and the password *)
authenticate_check(t) ==
  LET username == threads[t].args.username IN
  /\ AtPc(t, "authenticate", "start")
  /\ IF username \notin DOMAIN accounts
     THEN Finish(t, Raise("authenticate", 401, "bad_credentials"))
     ELSE IF IsLocked(accounts[username])
     THEN Finish(t, Raise("authenticate", 423, "bad_credentials_or_locked"))
     ELSE IF ~verify_password(threads[t].args.password,
                              accounts[username].password_hash)
     THEN Goto(t, "load")
     ELSE Goto(t, "reset_count")
  /\ UNCHANGED <<accounts, tokens, minted, students, grades, audit_logs, now, resp>>

(* auth.py:30, account.failed_attempts += 1: the read *)
authenticate_load(t) ==
  /\ AtPc(t, "authenticate", "load")
  /\ threads' = [threads EXCEPT
       ![t].pc = "store",
       ![t].local.failed_attempts =
          accounts[threads[t].args.username].failed_attempts]
  /\ UNCHANGED <<accounts, tokens, minted, students, grades, audit_logs, now, resp>>

authenticate_store_Once(t) ==
  /\ AtPc(t, "authenticate", "store")
  /\ accounts' = [accounts EXCEPT
       ![threads[t].args.username].failed_attempts = 1]
  /\ Goto(t, "test")
  /\ UNCHANGED <<tokens, minted, students, grades, audit_logs, now, resp>>

(* auth.py:30, account.failed_attempts += 1: the write *)
authenticate_store(t) ==
  /\ AtPc(t, "authenticate", "store")
  /\ accounts' = [accounts EXCEPT
       ![threads[t].args.username].failed_attempts =
          threads[t].local.failed_attempts + 1]
  /\ Goto(t, "test")
  /\ UNCHANGED <<tokens, minted, students, grades, audit_logs, now, resp>>

(* auth.py:31 and 33 *)
authenticate_test(t) ==
  /\ AtPc(t, "authenticate", "test")
  /\ IF accounts[threads[t].args.username].failed_attempts >= LOCKOUT_THRESHOLD
     THEN Goto(t, "lock")
     ELSE Finish(t, Raise("authenticate", 401, "bad_credentials"))
  /\ UNCHANGED <<accounts, tokens, minted, students, grades, audit_logs, now, resp>>

(* auth.py:32-33 *)
authenticate_lock(t) ==
  /\ AtPc(t, "authenticate", "lock")
  /\ accounts' = [accounts EXCEPT
       ![threads[t].args.username].locked_until = now + LOCKOUT_MINUTES]
  /\ Finish(t, Raise("authenticate", 401, "bad_credentials"))
  /\ UNCHANGED <<tokens, minted, students, grades, audit_logs, now, resp>>

(* auth.py:35 *)
authenticate_reset_count(t) ==
  /\ AtPc(t, "authenticate", "reset_count")
  /\ accounts' = [accounts EXCEPT ![threads[t].args.username].failed_attempts = 0]
  /\ Goto(t, "reset_lock")
  /\ UNCHANGED <<tokens, minted, students, grades, audit_logs, now, resp>>

(* auth.py:36 *)
authenticate_reset_lock(t) ==
  /\ AtPc(t, "authenticate", "reset_lock")
  /\ accounts' = [accounts EXCEPT
       ![threads[t].args.username].locked_until = NoTime]
  /\ Goto(t, "token")
  /\ UNCHANGED <<tokens, minted, students, grades, audit_logs, now, resp>>

(* auth.py:38-40 *)
authenticate_token(t) ==
  LET account == accounts[threads[t].args.username] IN
  /\ AtPc(t, "authenticate", "token")
  /\ minted < MaxTokens
  /\ minted' = minted + 1
  /\ tokens' = tokens @@ (NewToken :> account.username)
  /\ Finish(t, Return("authenticate",
       [token |-> NewToken, role |-> account.role,
        must_change_password |-> account.force_password_change]))
  /\ UNCHANGED <<accounts, students, grades, audit_logs, now, resp>>

ThreadLoginInputs == {<<"s_s001", "wrong">>, <<"s_s001", "Pass@123">>}

NextLogins ==
  \/ \E i \in ThreadLoginInputs : begin_authenticate(i[1], i[2])
  \/ \E t \in DOMAIN threads : authenticate_check(t)
  \/ \E t \in DOMAIN threads : authenticate_load(t)
  \/ \E t \in DOMAIN threads : authenticate_store(t)
  \/ \E t \in DOMAIN threads : authenticate_test(t)
  \/ \E t \in DOMAIN threads : authenticate_lock(t)
  \/ \E t \in DOMAIN threads : authenticate_reset_count(t)
  \/ \E t \in DOMAIN threads : authenticate_reset_lock(t)
  \/ \E t \in DOMAIN threads : authenticate_token(t)

SpecLogins == Init /\ [][NextLogins]_vars

(* teacher_update_grade on threads. A Grade is an object: the one a thread *)
(* creates is kept in the thread's local grade, and live tells whether     *)
(* data.grades still holds that object at its key. previous is the thread  *)
(* whose object the lookup returned, 0 for an object that no thread made,  *)
(* -1 for None.                                                            *)

MaxCalls == 3

(* services.py:132 *)
begin_teacher_update_grade(username, exam_id, subject_code, student_no, score) ==
  /\ Len(threads) < MaxCalls
  /\ threads' = Append(threads,
       Thread("teacher_update_grade",
              [username |-> username, exam_id |-> exam_id,
               subject_code |-> subject_code, student_no |-> student_no,
               score |-> score],
              [previous |-> -1, old_score |-> 0, grade |-> NoValue,
               live |-> FALSE]))
  /\ UNCHANGED <<accounts, tokens, minted, students, grades, audit_logs, now, resp>>

ArgsKey(t) ==
  _grade_key(threads[t].args.exam_id, threads[t].args.subject_code,
             threads[t].args.student_no)

(* the thread whose object data.grades holds at key, 0 when no thread made it *)
Holder(key) ==
  IF \E u \in DOMAIN threads : threads[u].local.live /\ ArgsKey(u) = key
  THEN CHOOSE u \in DOMAIN threads : threads[u].local.live /\ ArgsKey(u) = key
  ELSE 0

(* the object that previous refers to *)
PreviousOf(t) ==
  IF threads[t].local.previous = 0 THEN grades[IndexOf(grades, ArgsKey(t))]
  ELSE threads[threads[t].local.previous].local.grade

(* services.py:133-151: the checks, then previous = data.grades.get(key) *)
update_lookup(t) ==
  LET a == threads[t].args
      r == UpdateGrade(grades, audit_logs, accounts[a.username], a.exam_id,
                       a.subject_code, a.student_no, a.score)
  IN /\ AtPc(t, "teacher_update_grade", "start")
     /\ IF r.status # 200
        THEN Finish(t, Raise("teacher_update_grade", r.status, r.detail))
        ELSE IF HasKey(grades, ArgsKey(t))
        THEN threads' = [threads EXCEPT ![t].pc = "read_old",
                                        ![t].local.previous = Holder(ArgsKey(t))]
        ELSE Goto(t, "insert")
     /\ UNCHANGED <<accounts, tokens, minted, students, grades, audit_logs, now, resp>>

(* services.py:152 *)
update_read_old(t) ==
  /\ AtPc(t, "teacher_update_grade", "read_old")
  /\ threads' = [threads EXCEPT ![t].pc = "write",
                                ![t].local.old_score = PreviousOf(t).score]
  /\ UNCHANGED <<accounts, tokens, minted, students, grades, audit_logs, now, resp>>

(* services.py:153-155: the writes go to the object, which data.grades     *)
(* holds unless a later insertion has replaced it                          *)
update_write(t) ==
  LET p == threads[t].local.previous
      written == [PreviousOf(t) EXCEPT
                    !.score = Round1(threads[t].args.score),
                    !.updated_at = now,
                    !.created_by = _teacher_for_account(accounts[threads[t].args.username]).teacher_id]
  IN /\ AtPc(t, "teacher_update_grade", "write")
     /\ threads' = [u \in DOMAIN threads |->
          IF u = t THEN [threads[u] EXCEPT !.pc = "log_update"]
          ELSE IF u = p THEN [threads[u] EXCEPT !.local.grade = written]
          ELSE threads[u]]
     /\ grades' = IF p = 0 \/ threads[p].local.live
                  THEN [grades EXCEPT ![IndexOf(grades, ArgsKey(t))] = written]
                  ELSE grades
     /\ UNCHANGED <<accounts, tokens, minted, students, audit_logs, now, resp>>

(* services.py:156-166 *)
update_log_update(t) ==
  LET a == threads[t].args IN
  /\ AtPc(t, "teacher_update_grade", "log_update")
  /\ Len(audit_logs) < MaxLog
  /\ audit_logs' = _record_log(audit_logs, AuditAction.GRADE_UPDATED,
       _teacher_for_account(accounts[a.username]).teacher_id,
       [exam_id |-> a.exam_id, subject_code |-> a.subject_code,
        student_no |-> a.student_no, old_score |-> threads[t].local.old_score,
        new_score |-> PreviousOf(t).score])
  /\ Finish(t, Return("teacher_update_grade", PreviousOf(t)))
  /\ UNCHANGED <<accounts, tokens, minted, students, grades, now, resp>>

update_insert_Appends(t) ==
  LET a == threads[t].args
      grade == [exam_id |-> a.exam_id, subject_code |-> a.subject_code,
                student_no |-> a.student_no, score |-> Round1(a.score),
                created_by |-> _teacher_for_account(accounts[a.username]).teacher_id,
                created_at |-> now, updated_at |-> now, published |-> FALSE]
  IN /\ AtPc(t, "teacher_update_grade", "insert")
     /\ grades' = Append(grades, grade)
     /\ threads' = [u \in DOMAIN threads |->
          IF u = t
          THEN [threads[u] EXCEPT !.pc = "log_create", !.local.grade = grade,
                                  !.local.live = TRUE]
          ELSE threads[u]]
     /\ UNCHANGED <<accounts, tokens, minted, students, audit_logs, now, resp>>

(* services.py:168-178: data.grades[key] = grade puts the new object at    *)
(* the key, in the place of the object another thread put there meanwhile  *)
update_insert(t) ==
  LET a == threads[t].args
      grade == [exam_id |-> a.exam_id, subject_code |-> a.subject_code,
                student_no |-> a.student_no, score |-> Round1(a.score),
                created_by |-> _teacher_for_account(accounts[a.username]).teacher_id,
                created_at |-> now, updated_at |-> now, published |-> FALSE]
  IN /\ AtPc(t, "teacher_update_grade", "insert")
     /\ grades' = IF HasKey(grades, ArgsKey(t))
                  THEN [grades EXCEPT ![IndexOf(grades, ArgsKey(t))] = grade]
                  ELSE Append(grades, grade)
     /\ threads' = [u \in DOMAIN threads |->
          IF u = t
          THEN [threads[u] EXCEPT !.pc = "log_create", !.local.grade = grade,
                                  !.local.live = TRUE]
          ELSE IF ArgsKey(u) = ArgsKey(t)
          THEN [threads[u] EXCEPT !.local.live = FALSE]
          ELSE threads[u]]
     /\ UNCHANGED <<accounts, tokens, minted, students, audit_logs, now, resp>>

(* services.py:179-187: score = grade.score reads the thread's own object *)
update_log_create(t) ==
  LET a == threads[t].args IN
  /\ AtPc(t, "teacher_update_grade", "log_create")
  /\ Len(audit_logs) < MaxLog
  /\ audit_logs' = _record_log(audit_logs, AuditAction.GRADE_CREATED,
       _teacher_for_account(accounts[a.username]).teacher_id,
       [exam_id |-> a.exam_id, subject_code |-> a.subject_code,
        student_no |-> a.student_no, score |-> threads[t].local.grade.score])
  /\ Finish(t, Return("teacher_update_grade", threads[t].local.grade))
  /\ UNCHANGED <<accounts, tokens, minted, students, grades, now, resp>>

ThreadUpdateInputs ==
  {<<"t_chn", "EX2025N", "CHN", "S001", 5995>>,
   <<"t_chn", "EX2025N", "CHN", "S001", 8800>>,
   <<"s_s001", "EX2025N", "CHN", "S001", 8800>>}

NextUpdates ==
  \/ \E i \in ThreadUpdateInputs :
       begin_teacher_update_grade(i[1], i[2], i[3], i[4], i[5])
  \/ \E t \in DOMAIN threads : update_lookup(t)
  \/ \E t \in DOMAIN threads : update_read_old(t)
  \/ \E t \in DOMAIN threads : update_write(t)
  \/ \E t \in DOMAIN threads : update_log_update(t)
  \/ \E t \in DOMAIN threads : update_insert(t)
  \/ \E t \in DOMAIN threads : update_log_create(t)

SpecUpdates == Init /\ [][NextUpdates]_vars

(* publish_grades and list_student_grades on threads *)

(* services.py:278 *)
begin_publish_grades(username, exam_id, subject_code) ==
  /\ Len(threads) < MaxCalls
  /\ threads' = Append(threads,
       Thread("publish_grades",
              [username |-> username, exam_id |-> exam_id,
               subject_code |-> subject_code],
              [i |-> 1, size |-> 0, updated |-> 0]))
  /\ UNCHANGED <<accounts, tokens, minted, students, grades, audit_logs, now, resp>>

(* services.py:279-285: the checks; the loop starts on data.grades.values() *)
publish_check(t) ==
  LET a == threads[t].args
      teacher == _teacher_for_account(accounts[a.username])
  IN /\ AtPc(t, "publish_grades", "start")
     /\ IF teacher.status # 200
        THEN Finish(t, Raise("publish_grades", teacher.status, teacher.detail))
        ELSE IF ~SubjectInScope(a.subject_code, teacher.subjects)
        THEN Finish(t, Raise("publish_grades", 403, "subject_publish_not_allowed"))
        ELSE IF _require_exam(a.exam_id).status # 200
        THEN Finish(t, Raise("publish_grades", _require_exam(a.exam_id).status,
                             _require_exam(a.exam_id).detail))
        ELSE threads' = [threads EXCEPT ![t].pc = "loop",
                                        ![t].local.size = Len(grades)]
     /\ UNCHANGED <<accounts, tokens, minted, students, grades, audit_logs, now, resp>>

(* services.py:285-289: the next grade of the loop; the iterator raises    *)
(* RuntimeError when the dict has changed size                             *)
publish_loop(t) ==
  LET a == threads[t].args
      i == threads[t].local.i
      classes == _teacher_for_account(accounts[a.username]).classes
  IN /\ AtPc(t, "publish_grades", "loop")
     /\ IF Len(grades) # threads[t].local.size
        THEN Finish(t, Escapes("publish_grades", "RuntimeError"))
        ELSE IF i > Len(grades) THEN Goto(t, "finish")
        ELSE IF ~PublishMatches(grades[i], a.exam_id, a.subject_code, classes)
        THEN threads' = [threads EXCEPT ![t].local.i = i + 1]
        ELSE IF ~grades[i].published THEN Goto(t, "flag")
        ELSE Goto(t, "mark")
     /\ UNCHANGED <<accounts, tokens, minted, students, grades, audit_logs, now, resp>>

publish_flag_Skips(t) ==
  /\ AtPc(t, "publish_grades", "flag")
  /\ Goto(t, "mark")
  /\ UNCHANGED <<accounts, tokens, minted, students, grades, audit_logs, now, resp>>

(* services.py:290 *)
publish_flag(t) ==
  /\ AtPc(t, "publish_grades", "flag")
  /\ students' = [students EXCEPT
       ![grades[threads[t].local.i].student_no].has_unread_published_grades = TRUE]
  /\ Goto(t, "mark")
  /\ UNCHANGED <<accounts, tokens, minted, grades, audit_logs, now, resp>>

(* services.py:291-292 *)
publish_mark(t) ==
  LET i == threads[t].local.i IN
  /\ AtPc(t, "publish_grades", "mark")
  /\ grades' = [grades EXCEPT ![i] = MarkPublished(@)]
  /\ threads' = [threads EXCEPT ![t].pc = "loop", ![t].local.i = i + 1,
                                ![t].local.updated = @ + 1]
  /\ UNCHANGED <<accounts, tokens, minted, students, audit_logs, now, resp>>

(* services.py:293-296 *)
publish_finish(t) ==
  LET a == threads[t].args IN
  /\ AtPc(t, "publish_grades", "finish")
  /\ IF threads[t].local.updated = 0
     THEN /\ Finish(t, Raise("publish_grades", 404, "no_grade_records"))
          /\ UNCHANGED audit_logs
     ELSE /\ Len(audit_logs) < MaxLog
          /\ audit_logs' = _record_log(audit_logs, AuditAction.GRADE_PUBLISHED,
               _teacher_for_account(accounts[a.username]).teacher_id,
               [exam_id |-> a.exam_id, subject_code |-> a.subject_code,
                count |-> threads[t].local.updated])
          /\ Finish(t, Return("publish_grades",
               [count |-> threads[t].local.updated]))
  /\ UNCHANGED <<accounts, tokens, minted, students, grades, now, resp>>

(* services.py:87 *)
begin_list_student_grades(username, term, exam_id) ==
  /\ Len(threads) < MaxCalls
  /\ threads' = Append(threads,
       Thread("list_student_grades",
              [username |-> username, term |-> term, exam_id |-> exam_id],
              [grades |-> << >>, has_unread |-> FALSE]))
  /\ UNCHANGED <<accounts, tokens, minted, students, grades, audit_logs, now, resp>>

(* services.py:88-125: the checks and the rows of the published grades *)
list_select(t) ==
  LET a == threads[t].args
      account == accounts[a.username]
  IN /\ AtPc(t, "list_student_grades", "start")
     /\ IF account.role # Role.STUDENT
        THEN Finish(t, Raise("list_student_grades", 403, "forbidden"))
        ELSE IF account.bind_id \notin DOMAIN students
        THEN Finish(t, Raise("list_student_grades", 404, "student_not_found"))
        ELSE threads' = [threads EXCEPT
               ![t].pc = "read_flag",
               ![t].local.grades = StudentViews(grades, students[account.bind_id],
                                                a.term, a.exam_id)]
     /\ UNCHANGED <<accounts, tokens, minted, students, grades, audit_logs, now, resp>>

(* services.py:127: has_unread = student.has_unread_published_grades *)
list_read_flag(t) ==
  /\ AtPc(t, "list_student_grades", "read_flag")
  /\ threads' = [threads EXCEPT
       ![t].pc = "clear",
       ![t].local.has_unread =
          students[accounts[threads[t].args.username].bind_id]
            .has_unread_published_grades]
  /\ UNCHANGED <<accounts, tokens, minted, students, grades, audit_logs, now, resp>>

(* services.py:128-129 *)
list_clear(t) ==
  /\ AtPc(t, "list_student_grades", "clear")
  /\ students' = [students EXCEPT
       ![accounts[threads[t].args.username].bind_id]
          .has_unread_published_grades = FALSE]
  /\ Finish(t, Return("list_student_grades",
       [has_unread |-> threads[t].local.has_unread,
        grades |-> threads[t].local.grades]))
  /\ UNCHANGED <<accounts, tokens, minted, grades, audit_logs, now, resp>>

ThreadWriteInputs == {<<"t_chn", "EX2025N", "CHN", "S001", 5995>>}
ThreadPublishInputs == {<<"t_chn", "EX2025N", "CHN">>}
ThreadListInputs == {<<"s_s001", "None", "None">>}

NextPublishes ==
  \/ Respond
  \/ \E i \in ThreadWriteInputs :
       teacher_update_grade(i[1], i[2], i[3], i[4], i[5])
  \/ \E i \in ThreadPublishInputs : begin_publish_grades(i[1], i[2], i[3])
  \/ \E i \in ThreadListInputs : begin_list_student_grades(i[1], i[2], i[3])
  \/ \E t \in DOMAIN threads : publish_check(t)
  \/ \E t \in DOMAIN threads : publish_loop(t)
  \/ \E t \in DOMAIN threads : publish_flag(t)
  \/ \E t \in DOMAIN threads : publish_mark(t)
  \/ \E t \in DOMAIN threads : publish_finish(t)
  \/ \E t \in DOMAIN threads : list_select(t)
  \/ \E t \in DOMAIN threads : list_read_flag(t)
  \/ \E t \in DOMAIN threads : list_clear(t)

SpecPublishes == Init /\ [][NextPublishes]_vars

----------------------------------------------------------------------------
(* Credential store *)

(* the account is one of the table and the step is authenticate on it *)
Attempt(i) == i[1] \in DOMAIN accounts /\ authenticate(i[1], i[2])

(* C1: every wrong password on an account that is not locked is answered   *)
(* 401 and counts one failure; the failure that brings the count to five   *)
(* or more sets locked_until 15 minutes ahead; and while the count is at   *)
(* least five and locked_until is ahead, authenticate with any password,   *)
(* the right one included, is answered 423 and changes no account and no   *)
(* token.  So after five consecutive 401s the sixth attempt made before    *)
(* locked_until gets 423 and no token.                                     *)
C1_LockoutAfterFive ==
  [][\A i \in LoginInputs :
       Attempt(i) =>
         LET before == accounts[i[1]]
             after == accounts'[i[1]]
         IN /\ resp'.status = 401 =>
                 /\ after.failed_attempts = before.failed_attempts + 1
                 /\ (after.failed_attempts >= LOCKOUT_THRESHOLD
                       => after.locked_until = now + LOCKOUT_MINUTES)
            /\ (/\ before.failed_attempts >= LOCKOUT_THRESHOLD
                /\ before.locked_until # NoTime
                /\ now < before.locked_until)
                 => /\ resp'.status = 423
                    /\ UNCHANGED <<accounts, tokens, minted>>]_vars

(* the fifth failure has locked s_s001 and a further attempt got 423 *)
C1_Witness ==
  /\ accounts["s_s001"].failed_attempts = LOCKOUT_THRESHOLD
  /\ now < accounts["s_s001"].locked_until
  /\ resp.op = "authenticate"
  /\ resp.status = 423
  /\ minted = 0

(* C2: a successful authenticate leaves failed_attempts = 0 and            *)
(* locked_until = None and mints a token; a failed one that leaves the     *)
(* count under five does not touch locked_until; so fewer than five        *)
(* mismatches, a success, and fewer than five mismatches never lock.       *)
C2_SuccessResetsCount ==
  [][\A i \in LoginInputs :
       Attempt(i) =>
         LET before == accounts[i[1]]
             after == accounts'[i[1]]
         IN /\ resp'.status = 200 =>
                 /\ after.failed_attempts = 0
                 /\ after.locked_until = NoTime
                 /\ tokens'[resp'.value.token] = i[1]
            /\ (resp'.status = 401 /\ before.failed_attempts = 0)
                 => after.failed_attempts = 1
            /\ (resp'.status = 401 /\ after.failed_attempts < LOCKOUT_THRESHOLD)
                 => after.locked_until = before.locked_until]_vars

(* s_s001 holds a token, so has logged in, and has failed four times since *)
(* without being locked                                                    *)
C2_Witness ==
  /\ \E t \in DOMAIN tokens : tokens[t] = "s_s001"
  /\ accounts["s_s001"].failed_attempts = LOCKOUT_THRESHOLD - 1
  /\ accounts["s_s001"].locked_until = NoTime

----------------------------------------------------------------------------
(* Access policy *)

IsStudent(username) == accounts[username].role = Role.STUDENT
IsTeacher(username) == accounts[username].role = Role.TEACHER

(* the positions in the ledger of the published grades of a student *)
PublishedOf(student_no) ==
  {i \in 1..Len(grades) :
     grades[i].student_no = student_no /\ grades[i].published}

(* C3: list_student_grades without filters by a student account returns    *)
(* one row per published grade of the bound student (same exam, subject    *)
(* and score) and no other row; by an account that is no student it is     *)
(* answered 403.                                                           *)
C3_StudentSeesOwnPublished ==
  [][\A a \in Readers :
       list_student_grades(a, "None", "None") =>
         /\ ~IsStudent(a) => resp'.status = 403
         /\ (IsStudent(a) /\ accounts[a].bind_id \in DOMAIN students) =>
              LET rows == resp'.value.grades
                  mine == PublishedOf(accounts[a].bind_id)
              IN /\ resp'.status = 200
                 /\ Len(rows) = Cardinality(mine)
                 /\ \A i \in mine : \E r \in 1..Len(rows) :
                      /\ rows[r].exam_id = grades[i].exam_id
                      /\ rows[r].subject_code = grades[i].subject_code
                      /\ rows[r].score = grades[i].score
                 /\ \A r \in 1..Len(rows) : \E i \in mine :
                      /\ rows[r].exam_id = grades[i].exam_id
                      /\ rows[r].subject_code = grades[i].subject_code]_vars

(* a listing is answered while S001 and S002 both hold an unpublished and  *)
(* a published grade: the rows are the two published ones of the caller    *)
C3_Witness ==
  /\ resp.op = "list_student_grades"
  /\ resp.status = 200
  /\ Len(resp.value.grades) = 2
  /\ \A s \in {"S001", "S002"} : \E i \in 1..Len(grades) :
       grades[i].student_no = s /\ ~grades[i].published

(* the positions of the grades in the scope of a teacher record *)
InScopeOf(teacher) ==
  {i \in 1..Len(grades) :
     /\ grades[i].subject_code \in teacher.subjects
     /\ data_students[grades[i].student_no].class_name \in teacher.classes}

RowOf(grade) ==
  [student_no |-> grade.student_no,
   class_name |-> data_students[grade.student_no].class_name,
   subject_code |-> grade.subject_code, score |-> grade.score,
   published |-> grade.published]

(* C4: teacher_list_grades without filters by a bound teacher returns the  *)
(* grades of the teacher's subjects and classes, published or not, each    *)
(* once, and nothing else; by an account that is no teacher it is          *)
(* answered 403.                                                           *)
C4_TeacherSeesScope ==
  [][\A a \in Actors :
       teacher_list_grades(a, "None", "None") =>
         /\ ~IsTeacher(a) => resp'.status = 403
         /\ (IsTeacher(a) /\ accounts[a].bind_id \in DOMAIN data_teachers) =>
              LET rows == resp'.value.views
                  scope == InScopeOf(data_teachers[accounts[a].bind_id])
              IN /\ resp'.status = 200
                 /\ Len(rows) = Cardinality(scope)
                 /\ \A i \in scope :
                      Cardinality({r \in 1..Len(rows) : rows[r] = RowOf(grades[i])})
                        = Cardinality({j \in scope : RowOf(grades[j]) = RowOf(grades[i])})]_vars

(* t_mth, who has Class 1 only, is shown an unpublished grade and not the  *)
(* seeded MTH grade of S004                                                *)
C4_Witness ==
  /\ resp.op = "teacher_list_grades"
  /\ resp.status = 200
  /\ \E r \in 1..Len(resp.value.views) : ~resp.value.views[r].published
  /\ \A r \in 1..Len(resp.value.views) :
       /\ resp.value.views[r].subject_code = "MTH"
       /\ resp.value.views[r].student_no # "S004"

(* the actor is a bound teacher with the subject and the student's class *)
Authorized(username, subject_code, student_no) ==
  /\ IsTeacher(username)
  /\ accounts[username].bind_id \in DOMAIN data_teachers
  /\ subject_code \in data_teachers[accounts[username].bind_id].subjects
  /\ student_no \in DOMAIN data_students
  /\ data_students[student_no].class_name
       \in data_teachers[accounts[username].bind_id].classes

(* the call names a subject and a student of the school, and the actor is  *)
(* not authorized for them                                                 *)
Unauthorized(username, subject_code, student_no) ==
  /\ subject_code \in data_subjects
  /\ student_no \in DOMAIN data_students
  /\ ~Authorized(username, subject_code, student_no)

----------------------------------------------------------------------------
(* Grade ledger *)

Key(i) == <<i[2], i[3], i[4]>>
Exists(key) == \E j \in 1..Len(grades) : KeyOf(grades[j]) = key
At(key) == CHOOSE j \in 1..Len(grades) : KeyOf(grades[j]) = key
TeacherIdOf(username) == data_teachers[accounts[username].bind_id].teacher_id
LastLog == audit_logs'[Len(audit_logs')]
OneMoreLog ==
  /\ Len(audit_logs') = Len(audit_logs) + 1
  /\ SubSeq(audit_logs', 1, Len(audit_logs)) = audit_logs

(* C6: at every time the ledger holds at most one Grade per key and no     *)
(* Grade has updated_at before created_at; no step removes a Grade or      *)
(* changes the key or created_at of one; a successful teacher_update_grade *)
(* on a key that has a Grade adds none and sets that Grade's updated_at to *)
(* the time of the call.                                                   *)
C6_OneGradePerKey ==
  /\ [](/\ \A i, j \in 1..Len(grades) :
             KeyOf(grades[i]) = KeyOf(grades[j]) => i = j
        /\ \A i \in 1..Len(grades) : grades[i].updated_at >= grades[i].created_at)
  /\ [][/\ Len(grades') >= Len(grades)
        /\ \A i \in 1..Len(grades) :
             /\ KeyOf(grades'[i]) = KeyOf(grades[i])
             /\ grades'[i].created_at = grades[i].created_at
        /\ \A i \in ClockUpdateInputs :
             (teacher_update_grade(i[1], i[2], i[3], i[4], i[5])
                /\ resp'.status = 200 /\ Exists(Key(i)))
               => /\ Len(grades') = Len(grades)
                  /\ grades'[At(Key(i))].updated_at = now]_vars

(* a Grade created at time 0 was written again after the clock moved *)
C6_Witness ==
  /\ resp.op = "teacher_update_grade"
  /\ resp.status = 200
  /\ resp.value.exam_id = "EX2025N"
  /\ resp.value.created_at = 0
  /\ resp.value.updated_at = LOCKOUT_MINUTES
  /\ Len(grades) = Len(_grade_seed) + 1

(* C7: no step of teacher_update_grade, teacher_import_grades,             *)
(* publish_grades or the listings takes a Grade whose published is true to *)
(* one whose published is false.                                           *)
C7_PublishMonotonic ==
  [][\A i \in 1..Len(grades) :
       grades[i].published =>
         /\ i <= Len(grades')
         /\ KeyOf(grades'[i]) = KeyOf(grades[i])
         /\ grades'[i].published]_vars

(* a published Grade of the later exam was written again and is still      *)
(* published                                                               *)
C7_Witness ==
  /\ resp.op = "teacher_update_grade"
  /\ resp.status = 200
  /\ resp.value.exam_id = "EX2025N"
  /\ resp.value.published

Flag(student_no) == students[student_no].has_unread_published_grades

(* C8: a successful publish_grades sets the flag of every student one of   *)
(* whose grades it publishes for the first time; a successful              *)
(* list_student_grades returns the flag as it was and leaves it false; and *)
(* the flag of a student changes in no other way, so the listings after a  *)
(* first publication return true, then false, then true again after the    *)
(* next first publication.                                                 *)
C8_FlagSequence ==
  [][/\ \A i \in PublishInputs :
          (publish_grades(i[1], i[2], i[3]) /\ resp'.status = 200) =>
            \A j \in 1..Len(grades) :
              (~grades[j].published /\ grades'[j].published)
                => students'[grades[j].student_no].has_unread_published_grades
     /\ \A i \in ListInputs :
          (list_student_grades(i[1], i[2], i[3]) /\ resp'.status = 200) =>
            /\ resp'.value.has_unread = Flag(accounts[i[1]].bind_id)
            /\ ~students'[accounts[i[1]].bind_id].has_unread_published_grades
     /\ \A s \in DOMAIN students :
          /\ (~Flag(s) /\ students'[s].has_unread_published_grades) =>
               \E j \in 1..Len(grades) :
                 /\ grades[j].student_no = s
                 /\ ~grades[j].published /\ grades'[j].published
          /\ (Flag(s) /\ ~students'[s].has_unread_published_grades) =>
               /\ resp'.op = "list_student_grades"
               /\ resp'.status = 200
               /\ resp'.value.has_unread]_vars

(* S001 is told of unread grades while both grades of the later exam are   *)
(* among the rows: they were published by two calls, CHN by t_chn and MTH  *)
(* by t_mth                                                                *)
C8_Witness ==
  /\ resp.op = "list_student_grades"
  /\ resp.status = 200
  /\ resp.value.has_unread
  /\ ~Flag("S001")
  /\ \A c \in {"CHN", "MTH"} : \E r \in 1..Len(resp.value.grades) :
       /\ resp.value.grades[r].exam_id = "EX2025N"
       /\ resp.value.grades[r].subject_code = c

(* C9: a successful teacher_update_grade appends exactly one entry, by the *)
(* teacher id: grade_created with the stored score when the key had no     *)
(* Grade, the new Grade being unpublished; grade_updated with the score    *)
(* before the call and the rounded stored score when it had one, whose     *)
(* score, updated_at and created_by are overwritten. A failed one appends  *)
(* nothing.                                                                *)
C9_OneAuditEntryPerWrite ==
  [][\A i \in ClockUpdateInputs :
       teacher_update_grade(i[1], i[2], i[3], i[4], i[5]) =>
         IF resp'.status # 200 THEN audit_logs' = audit_logs
         ELSE /\ OneMoreLog
              /\ LastLog.actor = TeacherIdOf(i[1])
              /\ IF ~Exists(Key(i))
                 THEN /\ LastLog.action = AuditAction.GRADE_CREATED
                      /\ Len(grades') = Len(grades) + 1
                      /\ KeyOf(grades'[Len(grades')]) = Key(i)
                      /\ LastLog.details.score = grades'[Len(grades')].score
                      /\ ~grades'[Len(grades')].published
                 ELSE LET old == grades[At(Key(i))]
                          new == grades'[At(Key(i))]
                      IN /\ LastLog.action = AuditAction.GRADE_UPDATED
                         /\ LastLog.details.old_score = old.score
                         /\ LastLog.details.new_score = new.score
                         /\ new.score = Round1(i[5])
                         /\ new.updated_at = now
                         /\ new.created_by = TeacherIdOf(i[1])
                         /\ new.created_at = old.created_at
                         /\ new.published = old.published]_vars

(* the last entry records an update from 60.0 to 85.5 *)
C9_Witness ==
  /\ resp.op = "teacher_update_grade"
  /\ resp.status = 200
  /\ audit_logs # << >>
  /\ audit_logs[Len(audit_logs)].action = AuditAction.GRADE_UPDATED
  /\ audit_logs[Len(audit_logs)].details.old_score = 6000
  /\ audit_logs[Len(audit_logs)].details.new_score = 8550

(* C10: a successful publish_grades returns the number of grades of the    *)
(* exam and subject whose student's class is one of the teacher's, those   *)
(* already published included; all of them are published afterwards, and   *)
(* exactly one grade_published entry with that count is appended.          *)
C10_PublishCount ==
  [][\A i \in PublishInputs :
       (publish_grades(i[1], i[2], i[3]) /\ resp'.status = 200) =>
         LET touched == {j \in 1..Len(grades) :
                           /\ grades[j].exam_id = i[2]
                           /\ grades[j].subject_code = i[3]
                           /\ data_students[grades[j].student_no].class_name
                                \in data_teachers[accounts[i[1]].bind_id].classes}
         IN /\ resp'.value.count = Cardinality(touched)
            /\ \A j \in touched : grades'[j].published
            /\ \A j \in (1..Len(grades)) \ touched : grades'[j] = grades[j]
            /\ OneMoreLog
            /\ LastLog.action = AuditAction.GRADE_PUBLISHED
            /\ LastLog.details.count = Cardinality(touched)]_vars

(* the second publication of EX2025N MTH counts two grades, one of them    *)
(* published by the first                                                  *)
C10_Witness ==
  /\ resp.op = "publish_grades"
  /\ resp.status = 200
  /\ resp.value.count = 2
  /\ \E k \in 1..(Len(audit_logs) - 1) :
       /\ audit_logs[k].action = AuditAction.GRADE_PUBLISHED
       /\ audit_logs[k].details.exam_id = "EX2025N"
       /\ audit_logs[k].details.subject_code = "MTH"
       /\ audit_logs[k].details.count = 1
  /\ audit_logs[Len(audit_logs)].details.exam_id = "EX2025N"

----------------------------------------------------------------------------
(* Publication errors *)

BoundTeacher(username) ==
  IsTeacher(username) /\ accounts[username].bind_id \in DOMAIN data_teachers

(* C11: publish_grades is answered 403 when the actor is no bound teacher  *)
(* or the subject is not one of the teacher's, otherwise 404 "exam not     *)
(* found" when the exam is unknown, otherwise 404 "no grade records" when  *)
(* no grade of the exam and subject lies in the teacher's classes, and     *)
(* otherwise succeeds; a failing call changes no grade, no flag and no     *)
(* audit entry.                                                            *)
C11_PublishErrors ==
  [][\A i \in PublishInputs :
       publish_grades(i[1], i[2], i[3]) =>
         LET teacher == data_teachers[accounts[i[1]].bind_id]
             touched == {j \in 1..Len(grades) :
                           /\ grades[j].exam_id = i[2]
                           /\ grades[j].subject_code = i[3]
                           /\ data_students[grades[j].student_no].class_name
                                \in teacher.classes}
         IN /\ <<resp'.status, resp'.detail>> =
                 IF ~BoundTeacher(i[1])
                 THEN <<403, IF IsTeacher(i[1]) THEN "teacher_unbound" ELSE "forbidden">>
                 ELSE IF i[3] \notin teacher.subjects
                 THEN <<403, "subject_publish_not_allowed">>
                 ELSE IF i[2] \notin DOMAIN data_exams THEN <<404, "exam_not_found">>
                 ELSE IF touched = {} THEN <<404, "no_grade_records">>
                 ELSE <<200, "ok">>
            /\ resp'.status # 200 => UNCHANGED <<students, grades, audit_logs>>]_vars

(* a publication found no grade of its subject while the later exam has a  *)
(* grade of another                                                        *)
C11_Witness ==
  /\ resp.op = "publish_grades"
  /\ resp.status = 404
  /\ resp.detail = "no_grade_records"
  /\ \E j \in 1..Len(grades) : grades[j].exam_id = "EX2025N"

----------------------------------------------------------------------------
(* Bulk import *)

(* the row has its four fields and a score text that float() accepts *)
WellFormed(row) ==
  /\ \A f \in {"exam_id", "subject_code", "student_no", "score"} : row[f] # Missing
  /\ strip(row.score) \in FloatTexts

(* teacher_update_grade applied to the rows in order, a row that is not    *)
(* well formed or whose call fails being skipped: the ledger, the log and  *)
(* the number of calls that succeeded                                      *)
RECURSIVE Upserts(_, _, _, _, _)
Upserts(rows, account, gs, logs, done) ==
  IF rows = << >> THEN [grades |-> gs, audit_logs |-> logs, done |-> done]
  ELSE LET row == Head(rows)
           r == UpdateGrade(gs, logs, account, strip(row.exam_id),
                            strip(row.subject_code), strip(row.student_no),
                            float(strip(row.score)))
       IN IF WellFormed(row) /\ r.status = 200
          THEN Upserts(Tail(rows), account, r.grades, r.audit_logs, done + 1)
          ELSE Upserts(Tail(rows), account, gs, logs, done)

(* C12: teacher_import_grades always returns; processed is the number of   *)
(* rows whose teacher_update_grade succeeded and there is one error per    *)
(* other row, in the order of the rows; the ledger and the log it leaves   *)
(* are those of the calls applied in order with the failing rows skipped,  *)
(* and neither flags nor accounts change.                                  *)
C12_ImportNeverAborts ==
  [][\A a \in Actors, rows \in ImportInputs :
       teacher_import_grades(a, rows) =>
         LET ref == Upserts(rows, accounts[a], grades, audit_logs, 0)
             errors == resp'.value.errors
         IN /\ resp'.status = 200
            /\ resp'.value.processed = ref.done
            /\ resp'.value.processed + Len(errors) = Len(rows)
            /\ \A k \in 1..(Len(errors) - 1) : errors[k].line < errors[k + 1].line
            /\ grades' = ref.grades
            /\ audit_logs' = ref.audit_logs
            /\ Len(audit_logs') = Len(audit_logs) + ref.done
            /\ UNCHANGED <<students, accounts>>]_vars

(* the first row of an import was malformed and the second was applied:    *)
(* it created the grade of S002 in the later exam                          *)
C12_Witness ==
  /\ resp.op = "teacher_import_grades"
  /\ resp.value.processed = 1
  /\ Len(resp.value.errors) = 1
  /\ resp.value.errors[1].line = 2
  /\ resp.value.errors[1].kind = "format_error"
  /\ \E j \in 1..Len(grades) :
       grades[j].exam_id = "EX2025N" /\ grades[j].student_no = "S002"

----------------------------------------------------------------------------
(* Audit log *)

(* C13: every step leaves the log it found as a prefix of the log it       *)
(* leaves: no entry is removed, reordered or altered, and the length never *)
(* decreases.                                                              *)
C13_LogAppendOnly ==
  [][/\ Len(audit_logs') >= Len(audit_logs)
     /\ SubSeq(audit_logs', 1, Len(audit_logs)) = audit_logs]_vars

ActionsIn(logs) == {logs[k].action : k \in 1..Len(logs)}

(* the log holds entries of a write, a publication, an export and a        *)
(* password reset                                                          *)
C13_Witness ==
  /\ Len(audit_logs) = 4
  /\ ActionsIn(audit_logs) =
       {AuditAction.GRADE_CREATED, AuditAction.GRADE_PUBLISHED,
        AuditAction.EXPORT, AuditAction.PASSWORD_RESET}

GradeActions ==
  {AuditAction.GRADE_CREATED, AuditAction.GRADE_UPDATED,
   AuditAction.GRADE_PUBLISHED}

(* C14: list_audit_logs returns, in the order of the log, every entry to a *)
(* principal; to a bound teacher exactly the entries whose actor is the    *)
(* teacher's id or that record a write or publication of one of the        *)
(* teacher's subjects, hence no export or password reset of another actor; *)
(* to a student it is answered 403.                                        *)
C14_AuditVisibility ==
  [][\A a \in AuditReaders :
       list_audit_logs(a) =>
         /\ accounts[a].role = Role.PRINCIPAL =>
              resp'.status = 200 /\ resp'.value.logs = audit_logs
         /\ IsStudent(a) => resp'.status = 403
         /\ BoundTeacher(a) =>
              LET teacher == data_teachers[accounts[a].bind_id]
                  shown == resp'.value.logs
              IN /\ resp'.status = 200
                 /\ shown = SelectSeq(audit_logs, LAMBDA log :
                      \/ log.actor = teacher.teacher_id
                      \/ /\ log.action \in GradeActions
                         /\ "subject_code" \in DOMAIN log.details
                         /\ log.details.subject_code \in teacher.subjects)
                 /\ \A k \in 1..Len(shown) :
                      shown[k].action \in {AuditAction.EXPORT,
                                           AuditAction.PASSWORD_RESET}
                        => shown[k].actor = teacher.teacher_id]_vars

(* T100 is shown its own export and write while the log also holds an      *)
(* export of the principal and a write of T200                             *)
C14_Witness ==
  /\ resp.op = "list_audit_logs"
  /\ resp.status = 200
  /\ Len(resp.value.logs) = 2
  /\ \A k \in 1..2 : resp.value.logs[k].actor = "T100"
  /\ ActionsIn(resp.value.logs) = {AuditAction.EXPORT, AuditAction.GRADE_CREATED}
  /\ \E k \in 1..Len(audit_logs) : audit_logs[k].actor = "principal"
  /\ \E k \in 1..Len(audit_logs) : audit_logs[k].actor = "T200"

----------------------------------------------------------------------------
(* Sessions *)

(* C15: every token of the registry was minted and maps to an account of   *)
(* the table; a successful authenticate returns a token never returned     *)
(* before; a token stays in the registry with its username through every   *)
(* step (failed logins, lockout, change_password and reset_password        *)
(* included) except logout of that token; and get_account returns the      *)
(* account of the username for a token of the registry and 401 for any     *)
(* other.                                                                  *)
C15_SessionsPersist ==
  /\ [](\A t \in DOMAIN tokens : t \in 1..minted /\ tokens[t] \in DOMAIN accounts)
  /\ [][/\ \A t \in DOMAIN tokens :
             \/ t \in DOMAIN tokens' /\ tokens'[t] = tokens[t]
             \/ logout(t)
        /\ \A t \in DOMAIN tokens' \ DOMAIN tokens :
             /\ t \notin 1..minted
             /\ resp'.op = "authenticate" /\ resp'.status = 200
             /\ resp'.value.token = t
        /\ \A t \in TokenInputs :
             get_account(t) =>
               IF t \in DOMAIN tokens
               THEN /\ resp'.status = 200
                    /\ resp'.value = accounts[tokens[t]]
                    /\ resp'.value.username = tokens[t]
               ELSE resp'.status = 401 /\ resp'.detail = "not_logged_in"]_vars

(* a token of s_s001 resolves while the account is locked *)
C15_Witness ==
  /\ resp.op = "get_account"
  /\ resp.status = 200
  /\ resp.value.username = "s_s001"
  /\ resp.value.failed_attempts >= LOCKOUT_THRESHOLD
  /\ resp.value.locked_until > now

(* the registry ts without the token t *)
Without(ts, t) == [x \in DOMAIN ts \ {t} |-> ts[x]]

(* C16: logout never fails; it removes its token and nothing else, every   *)
(* other token (of the same account or another) staying with its username; *)
(* on a token that is not in the registry it changes nothing; and applying *)
(* it again to the state it leaves would leave that state.                 *)
C16_LogoutLocal ==
  [][\A t \in TokenInputs :
       logout(t) =>
         /\ resp'.status = 200
         /\ tokens' = Without(tokens, t)
         /\ \A x \in DOMAIN tokens \ {t} :
              x \in DOMAIN tokens' /\ tokens'[x] = tokens[x]
         /\ t \notin DOMAIN tokens => tokens' = tokens
         /\ Without(tokens', t) = tokens'
         /\ UNCHANGED <<accounts, minted, students, grades, audit_logs>>]_vars

(* two tokens were minted and a logout has been answered: one token, of    *)
(* s_s001, is still in the registry                                        *)
C16_Witness ==
  /\ resp.op = "logout"
  /\ minted = 2
  /\ Cardinality(DOMAIN tokens) = 1
  /\ \A t \in DOMAIN tokens : tokens[t] = "s_s001"

----------------------------------------------------------------------------
(* Passwords *)

(* authenticate(username, password) would succeed on the accounts accs *)
CanLogin(accs, username, password) ==
  /\ username \in DOMAIN accs
  /\ ~(accs[username].locked_until # NoTime /\ accs[username].locked_until > now)
  /\ verify_password(password, accs[username].password_hash)

(* C17: reset_password of an existing username returns a password that     *)
(* authenticates afterwards, at once even if the account was locked, with  *)
(* must_change_password true; no password that verified before verifies    *)
(* after; failed_attempts is 0 and locked_until cleared; no other account  *)
(* changes. For an unknown username it is answered 404 and changes no      *)
(* account. An authenticate whose password verifies on an unlocked account *)
(* succeeds and returns the account's force_password_change.               *)
C17_ResetPassword ==
  [][/\ \A u \in LoginNames :
          reset_password(u) =>
            IF u \in DOMAIN accounts
            THEN /\ resp'.status = 200
                 /\ CanLogin(accounts', u, resp'.value.new_password)
                 /\ accounts'[u].force_password_change
                 /\ accounts'[u].failed_attempts = 0
                 /\ accounts'[u].locked_until = NoTime
                 /\ \A q \in Passwords :
                      verify_password(q, accounts[u].password_hash)
                        => ~verify_password(q, accounts'[u].password_hash)
                 /\ \A v \in DOMAIN accounts \ {u} : accounts'[v] = accounts[v]
            ELSE /\ resp'.status = 404
                 /\ UNCHANGED <<accounts, tokens>>
     /\ \A i \in LoginInputs :
          (authenticate(i[1], i[2]) /\ CanLogin(accounts, i[1], i[2])) =>
            /\ resp'.status = 200
            /\ resp'.value.must_change_password
                 = accounts[i[1]].force_password_change]_vars

(* s_s001 has logged in with a generated password and is told to change    *)
(* it; the password of the seed no longer verifies                         *)
C17_Witness ==
  /\ resp.op = "authenticate"
  /\ resp.status = 200
  /\ resp.value.must_change_password
  /\ resp.value.token \in DOMAIN tokens
  /\ tokens[resp.value.token] = "s_s001"
  /\ \E p \in GeneratedPasswords :
       verify_password(p, accounts["s_s001"].password_hash)
  /\ ~verify_password("Pass@123", accounts["s_s001"].password_hash)

ChangeInputs == (LoginNames \cap Usernames) \X Passwords \X NewPasswords

(* C18: change_password with an old password that does not verify is       *)
(* rejected as "old password incorrect" (an AppError of status 400) and    *)
(* leaves every account as it was; with one that verifies it succeeds, and *)
(* afterwards the new password authenticates, the old one does not unless  *)
(* it is the new one, force_password_change is false, failed_attempts is 0 *)
(* and locked_until is cleared.                                            *)
C18_ChangePassword ==
  [][\A i \in ChangeInputs :
       change_password(i[1], i[2], i[3]) =>
         IF ~verify_password(i[2], accounts[i[1]].password_hash)
         THEN /\ resp'.status = 400
              /\ resp'.detail = "old_password_incorrect"
              /\ UNCHANGED accounts
         ELSE /\ resp'.status = 200
              /\ CanLogin(accounts', i[1], i[3])
              /\ i[2] # i[3] => ~verify_password(i[2], accounts'[i[1]].password_hash)
              /\ ~accounts'[i[1]].force_password_change
              /\ accounts'[i[1]].failed_attempts = 0
              /\ accounts'[i[1]].locked_until = NoTime
              /\ \A v \in DOMAIN accounts \ {i[1]} : accounts'[v] = accounts[v]]_vars

(* a change_password was refused while the account stays locked with its   *)
(* five failures and its flag                                              *)
C18_Witness ==
  /\ resp.op = "change_password"
  /\ resp.status = 400
  /\ accounts["s_s001"].failed_attempts = LOCKOUT_THRESHOLD
  /\ accounts["s_s001"].locked_until > now
  /\ accounts["s_s001"].force_password_change

(* C19: authenticate on an unknown username and authenticate with a        *)
(* password that does not verify on an existing unlocked account are       *)
(* answered by the same response, status 401 with one and the same         *)
(* message; the attempt on an unknown username changes no account and no   *)
(* registry entry and mints no token.                                      *)
C19_UnknownLikeWrong ==
  [][\A i \in LoginInputs :
       authenticate(i[1], i[2]) =>
         /\ (\/ i[1] \notin DOMAIN accounts
             \/ /\ i[1] \in DOMAIN accounts
                /\ ~(accounts[i[1]].locked_until # NoTime
                       /\ accounts[i[1]].locked_until > now)
                /\ ~verify_password(i[2], accounts[i[1]].password_hash))
              => resp' = [op |-> "authenticate", status |-> 401,
                          detail |-> "bad_credentials", value |-> NoValue]
         /\ i[1] \notin DOMAIN accounts => UNCHANGED <<accounts, tokens, minted>>]_vars

(* an attempt was refused with 401 and every account is as the table made  *)
(* it: the attempt was on an unknown username                              *)
C19_Witness ==
  /\ resp.op = "authenticate"
  /\ resp.status = 401
  /\ accounts = data_accounts
  /\ minted = 0

----------------------------------------------------------------------------
(* Order of the checks of teacher_update_grade *)

(* the answer to the call i, status and detail *)
Answered(status_code, detail) == resp'.status = status_code /\ resp'.detail = detail

(* C20 as stated: teacher_update_grade checks, in this order, that the     *)
(* exam exists (404), the subject exists (404), the student exists (404),  *)
(* the actor is authorized for the subject and the student's class (403)   *)
(* and the score lies in 0..100 (400); for every actor and input the       *)
(* answer is that of the first check that fails.                           *)
C20_ChecksInSpecOrder ==
  [][\A i \in UpdateInputs :
       teacher_update_grade(i[1], i[2], i[3], i[4], i[5]) =>
         IF i[2] \notin DOMAIN data_exams THEN Answered(404, "exam_not_found")
         ELSE IF i[3] \notin data_subjects THEN Answered(404, "subject_not_found")
         ELSE IF i[4] \notin DOMAIN data_students
         THEN Answered(404, "student_not_found")
         ELSE IF ~Authorized(i[1], i[3], i[4]) THEN resp'.status = 403
         ELSE IF i[5] < 0 \/ i[5] > 100 * 100 THEN resp'.status = 400
         ELSE resp'.status = 200]_vars

(* C20, the order in the code: the actor is a teacher (403) bound to a     *)
(* teacher record (403), the exam exists (404), the subject exists (404),  *)
(* the student exists (404), the subject is the teacher's (403), the       *)
(* student's class is the teacher's (403), the score lies in 0..100 (400). *)
C20_ChecksInCodeOrder ==
  [][\A i \in UpdateInputs :
       teacher_update_grade(i[1], i[2], i[3], i[4], i[5]) =>
         IF ~IsTeacher(i[1]) THEN Answered(403, "forbidden")
         ELSE IF ~BoundTeacher(i[1]) THEN Answered(403, "teacher_unbound")
         ELSE IF i[2] \notin DOMAIN data_exams THEN Answered(404, "exam_not_found")
         ELSE IF i[3] \notin data_subjects THEN Answered(404, "subject_not_found")
         ELSE IF i[4] \notin DOMAIN data_students
         THEN Answered(404, "student_not_found")
         ELSE IF i[3] \notin data_teachers[accounts[i[1]].bind_id].subjects
         THEN Answered(403, "subject_not_allowed")
         ELSE IF data_students[i[4]].class_name
                   \notin data_teachers[accounts[i[1]].bind_id].classes
         THEN Answered(403, "class_not_allowed")
         ELSE IF i[5] < 0 \/ i[5] > 100 * 100
         THEN Answered(400, "score_out_of_range")
         ELSE resp'.status = 200]_vars

(* a call was refused for the role of its actor *)
C20_Witness ==
  /\ resp.op = "teacher_update_grade"
  /\ resp.status = 403
  /\ resp.detail = "forbidden"

----------------------------------------------------------------------------
(* Stored scores *)

InRange(score) == score # NaN /\ 0 <= score /\ score <= 100 * 100

(* C21 as stated: in every state every Grade of the ledger has a score in  *)
(* 0..100.                                                                 *)
C21_ScoresInRange ==
  \A j \in 1..Len(grades) : InRange(grades[j].score)

(* C21, what the code keeps: every stored score is in 0..100 or is nan; a  *)
(* teacher_update_grade with a score below 0 or above 100 changes no Grade *)
(* and, when nothing else is wrong with the call, is answered 400; a row   *)
(* with such a score adds an error and changes no Grade.                   *)
C21_ScoresInRangeOrNaN ==
  /\ [](\A j \in 1..Len(grades) :
          grades[j].score = NaN \/ InRange(grades[j].score))
  /\ [][\A i \in UpdateInputs :
          (teacher_update_grade(i[1], i[2], i[3], i[4], i[5])
             /\ (i[5] < 0 \/ i[5] > 100 * 100))
            => /\ UNCHANGED <<grades, audit_logs>>
               /\ resp'.status # 200
               /\ (Authorized(i[1], i[3], i[4]) /\ i[2] \in DOMAIN data_exams)
                    => Answered(400, "score_out_of_range")]_vars

(* the ledger holds a Grade whose score is nan: the row "nan" of an import *)
(* was applied                                                             *)
C21_Witness ==
  /\ resp.op = "teacher_import_grades"
  /\ resp.value.processed = 1
  /\ \E j \in 1..Len(grades) : grades[j].score = NaN


(* the scores of the grades of a pair, as a set *)
ScoreSet(exam_id, subject_code) ==
  {grades[j].score : j \in {k \in 1..Len(grades) :
     grades[k].exam_id = exam_id /\ grades[k].subject_code = subject_code}}

(* how many grades of a pair have a score of at least 60 *)
PassingOf(exam_id, subject_code) ==
  Cardinality({k \in 1..Len(grades) :
     /\ grades[k].exam_id = exam_id /\ grades[k].subject_code = subject_code
     /\ grades[k].score # NaN /\ grades[k].score >= 60 * 100})

CountOf(exam_id, subject_code) ==
  Cardinality({k \in 1..Len(grades) :
     grades[k].exam_id = exam_id /\ grades[k].subject_code = subject_code})

(* the pairs an overview of exam_id ranges over *)
PairsOf(exam_id) ==
  (IF exam_id = "None" THEN DOMAIN data_exams ELSE {exam_id}) \X data_subjects

(* exactly one entry for each pair that has a grade, none for the others *)
EntryIffGrade(entries, exam_id) ==
  /\ \A k \in 1..Len(entries) :
       /\ <<entries[k].exam_id, entries[k].subject_code>> \in PairsOf(exam_id)
       /\ ScoreSet(entries[k].exam_id, entries[k].subject_code) # {}
  /\ \A pair \in PairsOf(exam_id) :
       ScoreSet(pair[1], pair[2]) # {} =>
         Cardinality({k \in 1..Len(entries) :
            entries[k].exam_id = pair[1] /\ entries[k].subject_code = pair[2]}) = 1

(* highest is the maximum, lowest the minimum, pass_rate 100 times the     *)
(* fraction of scores >= 60 (to the hundredth), lowest <= average <= highest *)
StatsRight(entry) ==
  LET scores == ScoreSet(entry.exam_id, entry.subject_code)
      n == CountOf(entry.exam_id, entry.subject_code)
      st == entry.stats
  IN /\ st.highest \in scores /\ st.lowest \in scores
     /\ st.highest # NaN /\ st.lowest # NaN /\ st.average # NaN
     /\ \A x \in scores : x # NaN /\ st.lowest <= x /\ x <= st.highest
     /\ st.lowest <= st.average /\ st.average <= st.highest
     /\ 2 * (st.pass_rate * n - PassingOf(entry.exam_id, entry.subject_code)
                                  * 100 * 100) <= n
     /\ 2 * (PassingOf(entry.exam_id, entry.subject_code) * 100 * 100
             - st.pass_rate * n) <= n

(* C22: principalOverview has an entry for a pair (exam, subject) iff a    *)
(* Grade exists for the pair, published or not; highest is the maximum and *)
(* lowest the minimum of the pair's scores, pass_rate is 100 times the     *)
(* fraction of scores >= 60, and lowest <= average <= highest.             *)
C22_OverviewStats ==
  [][\A e \in OverviewInputs :
       (principal_overview(e) /\ resp'.status = 200) =>
         /\ EntryIffGrade(resp'.value.entries, e)
         /\ \A k \in 1..Len(resp'.value.entries) :
              StatsRight(resp'.value.entries[k])]_vars

(* C22 as the code has it: the entries are as claimed, and the statistics  *)
(* are as claimed for every pair none of whose scores is nan; a pair with  *)
(* a nan score has average nan, and highest and lowest depend on the order *)
(* of the grades.                                                          *)
C22_OverviewStatsWithoutNaN ==
  [][\A e \in OverviewInputs :
       (principal_overview(e) /\ resp'.status = 200) =>
         /\ EntryIffGrade(resp'.value.entries, e)
         /\ \A k \in 1..Len(resp'.value.entries) :
              LET entry == resp'.value.entries[k]
              IN IF NaN \in ScoreSet(entry.exam_id, entry.subject_code)
                 THEN entry.stats.average = NaN
                 ELSE StatsRight(entry)]_vars

(* an overview answered while a pair holds a nan score next to a real one, *)
(* and another pair holds unpublished grades with different scores         *)
C22_Witness ==
  /\ resp.op = "principal_overview" /\ resp.status = 200
  /\ \E k \in 1..Len(resp.value.entries) :
       /\ resp.value.entries[k].stats.average = NaN
       /\ resp.value.entries[k].stats.highest # NaN
  /\ \E k \in 1..Len(resp.value.entries) :
       /\ resp.value.entries[k].stats.lowest # NaN
       /\ resp.value.entries[k].stats.lowest < resp.value.entries[k].stats.highest
       /\ \E j \in 1..Len(grades) :
            /\ grades[j].exam_id = resp.value.entries[k].exam_id
            /\ grades[j].subject_code = resp.value.entries[k].subject_code
            /\ ~grades[j].published

(* the export entries of one actor, in the order of logs *)
ExportsBy(logs, actor) ==
  SelectSeq(logs, LAMBDA log :
    log.action = AuditAction.EXPORT /\ log.actor = actor)

(* C23: a successful teacher_export_grades appends exactly one export      *)
(* entry whose actor is the exporting teacher's id and changes no Grade    *)
(* and no notification flag; every list_audit_logs of a teacher shows all  *)
(* export entries of that teacher that the log holds, so the next one      *)
(* shows the new entry.                                                    *)
C23_ExportLogged ==
  /\ [][\A i \in ExportInputs :
          (teacher_export_grades(i[1], i[2], i[3]) /\ resp'.status = 200) =>
            /\ BoundTeacher(i[1])
            /\ OneMoreLog
            /\ LastLog.action = AuditAction.EXPORT
            /\ LastLog.actor = TeacherIdOf(i[1])
            /\ UNCHANGED <<grades, students>>]_vars
  /\ [][\A a \in AuditReaders :
          (list_audit_logs(a) /\ BoundTeacher(a)) =>
            /\ resp'.status = 200
            /\ ExportsBy(resp'.value.logs, TeacherIdOf(a))
                 = ExportsBy(audit_logs, TeacherIdOf(a))]_vars

(* T100 is shown its two exports, one of them with filters, while the log  *)
(* also holds an export of T200                                            *)
C23_Witness ==
  /\ resp.op = "list_audit_logs"
  /\ resp.status = 200
  /\ Len(ExportsBy(resp.value.logs, "T100")) = 2
  /\ \E k \in 1..2 :
       ExportsBy(resp.value.logs, "T100")[k].details.exam_id = "EX2025N"
  /\ ExportsBy(audit_logs, "T200") # << >>
  /\ ExportsBy(resp.value.logs, "T200") = << >>

(* every thread ran authenticate(username, password) to its end *)
AllAttemptsDone(username, password) ==
  /\ threads # << >>
  /\ \A t \in DOMAIN threads :
       /\ threads[t].op = "authenticate" /\ threads[t].pc = "done"
       /\ threads[t].args.username = username
       /\ threads[t].args.password = password

(* the threads whose attempt failed on the password: each of them ran      *)
(* account.failed_attempts += 1                                            *)
FailedThreads == {t \in DOMAIN threads : threads[t].result.status = 401}

(* no two of them read the same value of failed_attempts *)
ReadsDiffer ==
  \A t, u \in FailedThreads :
    t # u => threads[t].local.failed_attempts # threads[u].local.failed_attempts

(* C24: when n authenticate calls with a wrong password on one account run *)
(* concurrently, interleaved at the reads and writes of failed_attempts,   *)
(* with no success in between, failed_attempts ends at n and the account   *)
(* is locked whenever n >= 5.                                              *)
C24_NoLostAttempt ==
  AllAttemptsDone("s_s001", "wrong") =>
    /\ accounts["s_s001"].failed_attempts = Cardinality(FailedThreads)
    /\ Cardinality(FailedThreads) >= 5 => IsLocked(accounts["s_s001"])

(* C24 as the code has it: failed_attempts never exceeds n, and it ends at *)
(* n, with the lock from n >= 5 on, when no two of the calls read the same *)
(* value of failed_attempts, as when each call ends before the next starts *)
C24_NoLostAttemptUnlessSameRead ==
  AllAttemptsDone("s_s001", "wrong") =>
    /\ accounts["s_s001"].failed_attempts <= Cardinality(FailedThreads)
    /\ ReadsDiffer =>
         /\ accounts["s_s001"].failed_attempts = Cardinality(FailedThreads)
         /\ Cardinality(FailedThreads) >= 5 => IsLocked(accounts["s_s001"])

(* five wrong passwords whose increments did not overlap: the account is   *)
(* locked at five                                                          *)
C24_Witness ==
  /\ AllAttemptsDone("s_s001", "wrong")
  /\ Cardinality(FailedThreads) = 5
  /\ ReadsDiffer
  /\ accounts["s_s001"].failed_attempts = 5
  /\ IsLocked(accounts["s_s001"])

(* the threads whose teacher_update_grade returned a Grade *)
Writers ==
  {t \in DOMAIN threads :
     /\ threads[t].op = "teacher_update_grade"
     /\ threads[t].pc = "done" /\ threads[t].result.status = 200}

(* those of them whose lookup found no Grade at the key *)
Creators == {t \in Writers : threads[t].local.previous = -1}

(* two calls for the key (EX2025N, CHN, S001), absent at first, have both  *)
(* returned and no other call is under way                                 *)
TwoWritesDone ==
  /\ Cardinality(Writers) = 2
  /\ \A t \in DOMAIN threads : threads[t].pc = "done"

GradesAt(key) == {j \in 1..Len(grades) : KeyOf(grades[j]) = key}

(* C25: two concurrent teacher_update_grade calls for one absent key,      *)
(* interleaved between the lookup and the insertion, leave exactly one     *)
(* Grade at the key and a log of one grade_created entry followed by one   *)
(* grade_updated entry whose old_score is the score of the first call.     *)
C25_UpsertSerialized ==
  TwoWritesDone =>
    /\ Cardinality(GradesAt(<<"EX2025N", "CHN", "S001">>)) = 1
    /\ Len(audit_logs) = 2
    /\ audit_logs[1].action = AuditAction.GRADE_CREATED
    /\ audit_logs[2].action = AuditAction.GRADE_UPDATED
    /\ audit_logs[2].details.old_score = audit_logs[1].details.score

(* C25 as the code has it: exactly one Grade at the key and two entries in *)
(* the log; when both lookups ran before either insertion both entries are *)
(* grade_created; when one lookup found the other call's Grade there is    *)
(* one grade_created and one grade_updated entry, in either order, and     *)
(* old_score is the score of the creating call.                            *)
C25_UpsertUnserialized ==
  TwoWritesDone =>
    /\ Cardinality(GradesAt(<<"EX2025N", "CHN", "S001">>)) = 1
    /\ Len(audit_logs) = 2
    /\ Creators # {}
    /\ Cardinality(Creators) = 2 =>
         \A k \in 1..2 : audit_logs[k].action = AuditAction.GRADE_CREATED
    /\ Cardinality(Creators) = 1 =>
         \E k \in 1..2 :
           /\ audit_logs[k].action = AuditAction.GRADE_CREATED
           /\ audit_logs[3 - k].action = AuditAction.GRADE_UPDATED
           /\ \A t \in Creators :
                audit_logs[3 - k].details.old_score
                  = Round1(threads[t].args.score)

(* the two calls wrote different scores; the second found the first one's  *)
(* Grade and the log reads created, then updated                           *)
C25_Witness ==
  /\ TwoWritesDone
  /\ Cardinality(Creators) = 1
  /\ audit_logs[1].action = AuditAction.GRADE_CREATED
  /\ audit_logs[2].action = AuditAction.GRADE_UPDATED
  /\ audit_logs[2].details.old_score # audit_logs[2].details.new_score
  /\ audit_logs[2].details.old_score = audit_logs[1].details.score

(* the listings of s_s001 that have returned *)
Listings ==
  {t \in DOMAIN threads :
     /\ threads[t].op = "list_student_grades"
     /\ threads[t].pc = "done" /\ threads[t].result.status = 200}

(* those that returned the grade of S001 for (EX2025N, CHN), which only a  *)
(* publish_grades call makes visible                                       *)
Showing ==
  {t \in Listings :
     \E k \in 1..Len(threads[t].result.value.grades) :
       /\ threads[t].result.value.grades[k].exam_id = "EX2025N"
       /\ threads[t].result.value.grades[k].subject_code = "CHN"}

(* at most one call is under way *)
OneAtATime == Cardinality({t \in DOMAIN threads : threads[t].pc # "done"}) <= 1

(* C26: no notification is lost when publish_grades interleaves with the   *)
(* student's listings: once a listing has returned the newly published     *)
(* grade, a listing that returned it reported has_unread = true, and no    *)
(* listing reports has_unread = true without returning the grade.          *)
C26_NoLostNotification ==
  /\ Showing # {} => \E t \in Showing : threads[t].result.value.has_unread
  /\ \A t \in Listings : threads[t].result.value.has_unread => t \in Showing

(* C26 as the code has it: the notification is kept in the behaviours in   *)
(* which each call ends before the next one starts                         *)
C26_NoLostNotificationOneAtATime ==
  []OneAtATime => []C26_NoLostNotification

(* a listing returned the newly published grade with has_unread = true and *)
(* a later one returned it with has_unread = false                         *)
C26_Witness ==
  /\ \E t \in Showing : threads[t].result.value.has_unread
  /\ \E t \in Showing : ~threads[t].result.value.has_unread
  /\ \A t \in DOMAIN threads : threads[t].pc = "done"

(* success, and the status codes of the seven error kinds: 400 for         *)
(* InvalidArgument, 401 for InvalidCredentials and Unauthenticated, 403    *)
(* for Forbidden, 404 for NotFound and NoMatchingRecords, 423 for          *)
(* AccountLocked                                                           *)
SevenKinds == {200, 400, 401, 403, 404, 423}

(* C27: every operation, on every combination of known and unknown exam,   *)
(* subject, student and account identifiers, succeeds or fails with one of *)
(* the seven error kinds, principal_overview on an unknown exam included.  *)
C27_OnlySevenKinds == Idle \/ resp.status \in SevenKinds

(* C27 as the code has it: principal_overview on an unknown exam lets a    *)
(* KeyError escape; every other call, and principal_overview on a known    *)
(* exam or on none, succeeds or fails with one of the seven kinds.         *)
C27_OnlySevenKindsButOverview ==
  /\ [](Idle \/ resp.status \in SevenKinds \/ resp.op = "principal_overview")
  /\ [][\A e \in OverviewInputs :
          principal_overview(e) =>
            /\ (e = "None" \/ e \in DOMAIN data_exams) => resp'.status = 200
            /\ (e # "None" /\ e \notin DOMAIN data_exams) =>
                 resp'.status \notin SevenKinds /\ resp'.detail = "KeyError"]_vars

(* the KeyError of principal_overview("EXBAD"), answered after failed      *)
(* logins have locked s_s001 and a write has changed the ledger            *)
C27_Witness ==
  /\ resp.op = "principal_overview"
  /\ resp.detail = "KeyError"
  /\ accounts["s_s001"].locked_until # NoTime
  /\ grades # [i \in 1..Len(_grade_seed) |-> SeedGrade(i)]

(* the grades of (exam_id, subject_code) whose student is in a class of    *)
(* the teacher bound to username                                           *)
PublishScope(username, exam_id, subject_code) ==
  {j \in 1..Len(grades) :
     /\ grades[j].exam_id = exam_id
     /\ grades[j].subject_code = subject_code
     /\ students[grades[j].student_no].class_name
          \in data_teachers[accounts[username].bind_id].classes}

(* C28: a successful publish_grades sets the notification flag of exactly  *)
(* the students one of whose grades it takes from unpublished to           *)
(* published; when every grade in scope is published already it returns    *)
(* the full count and leaves every flag as it was.                         *)
C28_FlagOnlyOnNewPublish ==
  [][\A i \in PublishInputs :
       (publish_grades(i[1], i[2], i[3]) /\ resp'.status = 200) =>
         LET scope == PublishScope(i[1], i[2], i[3]) IN
         /\ resp'.value.count = Cardinality(scope)
         /\ \A s \in DOMAIN students :
              students'[s].has_unread_published_grades =
                \/ students[s].has_unread_published_grades
                \/ \E j \in scope : grades[j].student_no = s /\ ~grades[j].published
         /\ (\A j \in scope : grades[j].published) => students' = students]_vars

(* (EX2025N, CHN) was published, S001 listed its grades, and the same      *)
(* publish was repeated: it returned its count and S001's flag is false    *)
C28_Witness ==
  /\ resp.op = "publish_grades" /\ resp.status = 200 /\ resp.value.count >= 1
  /\ Len(audit_logs) >= 3
  /\ audit_logs[Len(audit_logs)].details.exam_id = "EX2025N"
  /\ audit_logs[Len(audit_logs)].details.subject_code = "CHN"
  /\ audit_logs[Len(audit_logs) - 1].action = AuditAction.GRADE_PUBLISHED
  /\ audit_logs[Len(audit_logs) - 1].details.exam_id = "EX2025N"
  /\ audit_logs[Len(audit_logs) - 1].details.subject_code = "CHN"
  /\ \A s \in DOMAIN students : ~students[s].has_unread_published_grades

PublishedOnly == SelectSeq(grades, LAMBDA grade : grade.published)

(* a row without its class_average *)
OwnPart(row) ==
  [exam_id |-> row.exam_id, exam_date |-> row.exam_date,
   subject_code |-> row.subject_code, score |-> row.score]

(* C30: list_student_grades shows nothing of unpublished grades: its        *)
(* response (rows, scores, class_average values and has_unread) is the one  *)
(* it gives in the state that differs only by holding none of the           *)
(* unpublished grades, those of classmates included.                        *)
C30_ListingHidesUnpublished ==
  [][\A i \in ClassmateListInputs :
       (list_student_grades(i[1], i[2], i[3]) /\ resp'.status = 200) =>
         /\ resp'.value.has_unread
              = students[accounts[i[1]].bind_id].has_unread_published_grades
         /\ resp'.value.grades
              = StudentViews(PublishedOnly, students[accounts[i[1]].bind_id],
                             i[2], i[3])]_vars

(* C30 as the code has it: the rows, their scores and has_unread are those *)
(* of the state without the unpublished grades, but the class_average of a *)
(* row is the mean over every grade of the class for the exam and subject, *)
(* unpublished ones included.                                              *)
C30_ListingAveragesUnpublished ==
  [][\A i \in ClassmateListInputs :
       (list_student_grades(i[1], i[2], i[3]) /\ resp'.status = 200) =>
         LET student == students[accounts[i[1]].bind_id]
             rows == resp'.value.grades
             hidden == StudentViews(PublishedOnly, student, i[2], i[3])
         IN /\ resp'.value.has_unread = student.has_unread_published_grades
            /\ Len(rows) = Len(hidden)
            /\ \A r \in 1..Len(rows) :
                 /\ OwnPart(rows[r]) = OwnPart(hidden[r])
                 /\ LET of_class == {j \in 1..Len(grades) :
                           /\ grades[j].exam_id = rows[r].exam_id
                           /\ grades[j].subject_code = rows[r].subject_code
                           /\ students[grades[j].student_no].class_name
                                = student.class_name}
                        n == Cardinality(of_class)
                        total == Sum([j \in 1..Len(grades) |->
                                   IF j \in of_class THEN grades[j].score ELSE 0])
                    IN /\ 2 * (rows[r].class_average * n - total) <= n
                       /\ 2 * (total - rows[r].class_average * n) <= n]_vars

(* S001 lists its published grade of (EX2025N, CHN) while the grade of its *)
(* classmate S002 for the same exam and subject is unpublished             *)
C30_Witness ==
  /\ resp.op = "list_student_grades" /\ resp.status = 200
  /\ \E r \in 1..Len(resp.value.grades) :
       /\ resp.value.grades[r].exam_id = "EX2025N"
       /\ resp.value.grades[r].score = 6000
  /\ \E j \in 1..Len(grades) :
       /\ grades[j].exam_id = "EX2025N" /\ grades[j].student_no = "S002"
       /\ ~grades[j].published

(* C31: in every state, for every account, locked_until is set only if     *)
(* failed_attempts >= 5, and failed_attempts is never negative.            *)
C31_LockedOnlyAfterFive ==
  \A u \in DOMAIN accounts :
    /\ accounts[u].locked_until # NoTime
         => accounts[u].failed_attempts >= 5
    /\ accounts[u].failed_attempts >= 0

(* s_s001 was locked, the lock has run out, and a login with the right     *)
(* password has cleared the count and the lock together                    *)
C31_Witness ==
  /\ resp.op = "authenticate" /\ resp.status = 200
  /\ tokens[resp.value.token] = "s_s001"
  /\ now >= LOCKOUT_MINUTES
  /\ accounts["s_s001"].failed_attempts = 0
  /\ accounts["s_s001"].locked_until = NoTime

(* C32: while an account is locked (locked_until in the future), every     *)
(* authenticate on it, with a right or a wrong password, fails with        *)
(* AccountLocked and leaves failed_attempts, locked_until, the password    *)
(* and the session registry as they were.                                  *)
C32_LockedAttemptChangesNothing ==
  [][\A i \in LoginInputs :
       (/\ Attempt(i)
        /\ accounts[i[1]].locked_until # NoTime
        /\ accounts[i[1]].locked_until > now)
         => /\ resp'.status = 423
            /\ accounts'[i[1]].failed_attempts = accounts[i[1]].failed_attempts
            /\ accounts'[i[1]].locked_until = accounts[i[1]].locked_until
            /\ accounts'[i[1]].password_hash = accounts[i[1]].password_hash
            /\ UNCHANGED <<accounts, tokens, minted>>]_vars

(* an attempt in the last minute of the lock of s_s001 has been refused    *)
C32_Witness ==
  /\ resp.op = "authenticate" /\ resp.status = 423
  /\ accounts["s_s001"].failed_attempts = LOCKOUT_THRESHOLD
  /\ accounts["s_s001"].locked_until = now + 1

(* the lock of the account has run out: auth.py:26 no longer refuses *)
LockExpired(account) ==
  account.locked_until # NoTime /\ account.locked_until <= now

(* C33: the passing of time changes no account, so a lock that runs out    *)
(* leaves failed_attempts >= 5; once locked_until has passed, authenticate *)
(* with the right password succeeds and clears the count and the lock,     *)
(* and authenticate with a wrong password fails, counts, and locks the     *)
(* account again until 15 minutes from now.                                *)
C33_ExpiryKeepsCount ==
  /\ [][\A d \in TickSteps : Tick(d) => UNCHANGED accounts]_vars
  /\ [][\A i \in LoginInputs :
          (Attempt(i) /\ LockExpired(accounts[i[1]]))
            => /\ accounts[i[1]].failed_attempts >= LOCKOUT_THRESHOLD
               /\ IF verify_password(i[2], accounts[i[1]].password_hash)
                  THEN /\ resp'.status = 200
                       /\ accounts'[i[1]].failed_attempts = 0
                       /\ accounts'[i[1]].locked_until = NoTime
                  ELSE /\ resp'.status = 401
                       /\ accounts'[i[1]].failed_attempts =
                            accounts[i[1]].failed_attempts + 1
                       /\ accounts'[i[1]].locked_until =
                            now + LOCKOUT_MINUTES]_vars

(* the lock of s_s001 ran out and one more wrong password has locked the   *)
(* account again for 15 minutes                                            *)
C33_Witness ==
  /\ resp.op = "authenticate" /\ resp.status = 401
  /\ now >= LOCKOUT_MINUTES
  /\ accounts["s_s001"].failed_attempts = LOCKOUT_THRESHOLD + 1
  /\ accounts["s_s001"].locked_until = now + LOCKOUT_MINUTES

----------------------------------------------------------------------------
(* The ledger, the exports, the audit listing and the credential           *)
(* operations side by side: two students of Class 1 receive grades from    *)
(* t_chn, which publishes them, while s_s001 logs in, changes and loses    *)
(* its password.                                                           *)

FlagUpdateInputs ==
  {<<"t_chn", "EX2025N", "CHN", "S001", 5995>>,
   <<"t_chn", "EX2025N", "CHN", "S002", 8800>>}
FlagListInputs == {"s_s001", "s_s002", "t_chn"} \X {"None"} \X {"None"}
(* the first password of s_s001 is the wrong one after reset_password *)
FlagLoginInputs == {<<"s_s001", "Pass@123">>}
FlagRows == <<Row("EX2025N", "CHN", "S001", "85")>>

NextFlags ==
  \/ Respond
  \/ \E i \in FlagUpdateInputs : teacher_update_grade(i[1], i[2], i[3], i[4], i[5])
  \/ teacher_import_grades("t_chn", FlagRows)
  \/ publish_grades("t_chn", "EX2025N", "CHN")
  \/ \E i \in FlagListInputs : list_student_grades(i[1], i[2], i[3])
  \/ teacher_export_grades("t_chn", "None", "None")
  \/ principal_export_grades(Filters("None", "None", "None"))
  \/ list_audit_logs("t_chn")
  \/ \E i \in FlagLoginInputs : authenticate(i[1], i[2])
  \/ change_password("s_s001", "Pass@123", "New@456")
  \/ reset_password("s_s001")
  \/ logout(1)

SpecFlags == Init /\ [][NextFlags]_vars

(* C34: in every state a student whose has_unread_published_grades is true *)
(* has at least one Grade with published = true; the flag becomes true     *)
(* only in a successful publish_grades that publishes a grade of the       *)
(* student, and becomes false only in a successful list_student_grades of  *)
(* the account bound to the student: teacher_update_grade,                 *)
(* teacher_import_grades, the exports, list_audit_logs and the credential  *)
(* operations never change it.                                             *)
C34_FlagFollowsPublish ==
  /\ [](\A s \in StudentNos : Flag(s) => PublishedOf(s) # {})
  /\ [][\A s \in StudentNos :
          /\ (~Flag(s) /\ students'[s].has_unread_published_grades)
               => /\ resp'.op = "publish_grades" /\ resp'.status = 200
                  /\ \E j \in 1..Len(grades) :
                       /\ grades[j].student_no = s
                       /\ ~grades[j].published
                       /\ grades'[j].published
          /\ (Flag(s) /\ ~students'[s].has_unread_published_grades)
               => \E i \in FlagListInputs :
                    /\ list_student_grades(i[1], i[2], i[3])
                    /\ resp'.status = 200
                    /\ accounts[i[1]].bind_id = s]_vars

(* S002 still has its notification after S001 has read its own and the     *)
(* password of s_s001 has been reset                                       *)
C34_Witness ==
  /\ Flag("S002") /\ ~Flag("S001")
  /\ \E j \in PublishedOf("S001") : grades[j].exam_id = "EX2025N"
  /\ resp.op = "reset_password" /\ resp.status = 200

(* the rows list_student_grades would return for the student, unfiltered *)
RowsShown(gs, student_no) ==
  StudentViews(gs, students[student_no], "None", "None")

(* C35: a successful teacher_update_grade on a Grade that is published     *)
(* leaves it published, changes no student record, so no flag, and the     *)
(* rows list_student_grades returns to the student from then on hold the   *)
(* new score for the exam and subject.                                     *)
C35_UpdateOfPublished ==
  [][\A i \in ClassmateUpdateInputs :
       (/\ teacher_update_grade(i[1], i[2], i[3], i[4], i[5])
        /\ resp'.status = 200
        /\ Exists(Key(i))
        /\ grades[At(Key(i))].published)
         => /\ grades'[At(Key(i))].published
            /\ grades'[At(Key(i))].score = Round1(i[5])
            /\ UNCHANGED students
            /\ \E k \in 1..Len(RowsShown(grades', i[4])) :
                 /\ RowsShown(grades', i[4])[k].exam_id = i[2]
                 /\ RowsShown(grades', i[4])[k].subject_code = i[3]
                 /\ RowsShown(grades', i[4])[k].score = Round1(i[5])]_vars

(* S002 has read the published grade of EX2025N, and the teacher has then  *)
(* replaced its score by another one                                       *)
C35_Witness ==
  /\ resp.op = "teacher_update_grade" /\ resp.status = 200
  /\ resp.value.exam_id = "EX2025N" /\ resp.value.published
  /\ resp.value.student_no = "S002"
  /\ ~Flag("S002")
  /\ audit_logs[Len(audit_logs)].action = AuditAction.GRADE_UPDATED
  /\ audit_logs[Len(audit_logs)].details.old_score
       # audit_logs[Len(audit_logs)].details.new_score

(* C36: a successful list_student_grades, whatever term and exam filter it *)
(* is given, sets the flag of the caller's student to false and changes no *)
(* other student record; the call succeeds exactly for an account of role  *)
(* Student bound to a Student record, and a failing call changes no        *)
(* student record.                                                         *)
C36_ListingClearsOwnFlag ==
  [][\A i \in ListInputs :
       list_student_grades(i[1], i[2], i[3])
         => LET account == accounts[i[1]] IN
            IF account.role = Role.STUDENT /\ account.bind_id \in DOMAIN students
            THEN /\ resp'.status = 200
                 /\ ~students'[account.bind_id].has_unread_published_grades
                 /\ \A s \in StudentNos \ {account.bind_id} :
                      students'[s] = students[s]
                 /\ students'[account.bind_id].class_name
                      = students[account.bind_id].class_name
            ELSE /\ resp'.status \in {403, 404}
                 /\ UNCHANGED students]_vars

(* the listing of s_s001 filtered the newly published grade of EX2025N out *)
(* of its rows, reported has_unread and cleared the flag                   *)
C36_Witness ==
  /\ resp.op = "list_student_grades" /\ resp.status = 200
  /\ resp.value.has_unread
  /\ \A k \in 1..Len(resp.value.grades) : resp.value.grades[k].exam_id # "EX2025N"
  /\ \E j \in PublishedOf("S001") : grades[j].exam_id = "EX2025N"
  /\ ~Flag("S001")
  /\ \E s \in StudentNos : Flag(s)

(* C37: force_password_change is true for every account at the start; it   *)
(* becomes false only in a successful change_password and true only in a   *)
(* successful reset_password, each of which leaves it so; authenticate,    *)
(* failing or not, never changes it, and a successful authenticate returns *)
(* it as must_change_password.                                             *)
C37_MustChangeUntilChanged ==
  /\ \A u \in DOMAIN accounts : accounts[u].force_password_change
  /\ [][\A u \in DOMAIN accounts :
          /\ (accounts[u].force_password_change
                /\ ~accounts'[u].force_password_change)
               => resp'.op = "change_password" /\ resp'.status = 200
          /\ (~accounts[u].force_password_change
                /\ accounts'[u].force_password_change)
               => resp'.op = "reset_password" /\ resp'.status = 200]_vars
  /\ [][\A u \in LoginNames \cap Usernames :
          /\ (\E o \in Passwords, n \in NewPasswords :
                change_password(u, o, n) /\ resp'.status = 200)
               => ~accounts'[u].force_password_change
          /\ (reset_password(u) /\ resp'.status = 200)
               => accounts'[u].force_password_change]_vars
  /\ [][\A i \in LoginInputs :
          Attempt(i)
            => /\ accounts'[i[1]].force_password_change
                    = accounts[i[1]].force_password_change
               /\ resp'.status = 200
                    => resp'.value.must_change_password
                         = accounts[i[1]].force_password_change]_vars

(* s_s001 has changed its password and logs in with the new one: the       *)
(* session says that no change is due                                      *)
C37_Witness ==
  /\ resp.op = "authenticate" /\ resp.status = 200
  /\ tokens[resp.value.token] = "s_s001"
  /\ ~resp.value.must_change_password
  /\ verify_password("New@456", accounts["s_s001"].password_hash)

----------------------------------------------------------------------------
(* app/web.py: POST /principal/reset *)

(* a session that holds no token *)
NoToken == 0

(* web.py:34-41: the account of the session, if any *)
_get_account(token) ==
  IF token = NoToken THEN Raise("get_account", 401, "not_logged_in")
  ELSE get_account_of(token)

(* auth.py:81-84: the account after reset_password *)
ResetAccount(account, new_password, salt) ==
  [account EXCEPT !.password_hash = hash_password(new_password, salt),
                  !.force_password_change = TRUE,
                  !.failed_attempts = 0,
                  !.locked_until = NoTime]

do_POST_principal_reset_LogsFirst(token, form_username) ==
  LET account == _get_account(token)
      username == strip(form_username)
      op == "do_POST_principal_reset"
  IN /\ Idle /\ UNCHANGED threads
     /\ UNCHANGED <<tokens, minted, students, grades, now>>
     /\ IF account.status # 200 \/ account.value.role # Role.PRINCIPAL
        THEN /\ resp' = Raise(op, 403, "forbidden")
             /\ UNCHANGED <<accounts, audit_logs>>
        ELSE IF username = ""
        THEN /\ resp' = Raise(op, 400, "username_required")
             /\ UNCHANGED <<accounts, audit_logs>>
        ELSE /\ Len(audit_logs) < MaxLog
             /\ audit_logs' = _record_log(audit_logs, AuditAction.PASSWORD_RESET,
                                account.value.username, [username |-> username])
             /\ IF username \notin DOMAIN accounts
                THEN /\ resp' = Raise(op, 404, "account_not_found")
                     /\ UNCHANGED accounts
                ELSE \E new_password \in GeneratedPasswords, salt \in Salts :
                       /\ ~verify_password(new_password,
                                           accounts[username].password_hash)
                       /\ accounts' = [accounts EXCEPT ![username] =
                            ResetAccount(@, new_password, salt)]
                       /\ resp' = Return(op, [new_password |-> new_password])

(* web.py:795-815: the whole handler; the response is the flash message *)
do_POST_principal_reset(token, form_username) ==
  LET account == _get_account(token)
      username == strip(form_username)
      op == "do_POST_principal_reset"
  IN /\ Idle /\ UNCHANGED threads
     /\ UNCHANGED <<tokens, minted, students, grades, now>>
     /\ IF account.status # 200 \/ account.value.role # Role.PRINCIPAL
        THEN /\ resp' = Raise(op, 403, "forbidden")
             /\ UNCHANGED <<accounts, audit_logs>>
        ELSE IF username = ""
        THEN /\ resp' = Raise(op, 400, "username_required")
             /\ UNCHANGED <<accounts, audit_logs>>
        ELSE IF username \notin DOMAIN accounts
        THEN /\ resp' = Raise(op, 404, "account_not_found")
             /\ UNCHANGED <<accounts, audit_logs>>
        ELSE /\ Len(audit_logs) < MaxLog
             /\ \E new_password \in GeneratedPasswords, salt \in Salts :
                  /\ ~verify_password(new_password,
                                      accounts[username].password_hash)
                  /\ accounts' = [accounts EXCEPT ![username] =
                       ResetAccount(@, new_password, salt)]
                  /\ resp' = Return(op, [new_password |-> new_password])
             /\ audit_logs' = _record_log(audit_logs, AuditAction.PASSWORD_RESET,
                                account.value.username, [username |-> username])

SessionTokens == NoToken..MaxTokens
FormUsernames == {"s_s001", " s_s001 ", "nobody", ""}
ResetLoginInputs ==
  {<<"principal", "Pass@123">>, <<"s_s001", "Pass@123">>}
    \cup ({"s_s001"} \X GeneratedPasswords)

NextReset ==
  \/ Respond
  \/ \E i \in ResetLoginInputs : authenticate(i[1], i[2])
  \/ \E t \in SessionTokens, u \in FormUsernames : do_POST_principal_reset(t, u)
  \/ \E t \in TokenInputs : logout(t)
  \/ list_audit_logs("principal")

SpecReset == Init /\ [][NextReset]_vars

(* C38: the reset handler of a principal's session appends one             *)
(* password_reset entry, with the principal's username as actor and the    *)
(* target username in its details, exactly when the target account exists  *)
(* and its password is reset; when reset_password fails with NotFound, or  *)
(* the request is refused, the log and the accounts stay as they were.     *)
C38_ResetLoggedIffDone ==
  [][\A t \in SessionTokens, u \in FormUsernames :
       do_POST_principal_reset(t, u)
         => IF resp'.status = 200
            THEN /\ strip(u) \in DOMAIN accounts
                 /\ accounts[tokens[t]].role = Role.PRINCIPAL
                 /\ OneMoreLog
                 /\ LastLog.action = AuditAction.PASSWORD_RESET
                 /\ LastLog.actor = tokens[t]
                 /\ LastLog.details = [username |-> strip(u)]
                 /\ CanLogin(accounts', strip(u), resp'.value.new_password)
            ELSE /\ UNCHANGED <<accounts, audit_logs>>
                 /\ (t \in DOMAIN tokens
                       /\ accounts[tokens[t]].role = Role.PRINCIPAL
                       /\ strip(u) # "")
                      => /\ strip(u) \notin DOMAIN accounts
                         /\ resp'.status = 404]_vars

(* the principal has reset s_s001 once and then asked for an account that  *)
(* does not exist: the log still holds the one entry                       *)
C38_Witness ==
  /\ resp.op = "do_POST_principal_reset" /\ resp.status = 404
  /\ Len(audit_logs) = 1
  /\ audit_logs[1].action = AuditAction.PASSWORD_RESET
  /\ audit_logs[1].actor = "principal"
  /\ audit_logs[1].details.username = "s_s001"
  /\ accounts["s_s001"].force_password_change
  /\ ~verify_password("Pass@123", accounts["s_s001"].password_hash)

----------------------------------------------------------------------------
(* The read operations and the session gates on a ledger, a log and a      *)
(* registry that the writing operations fill.                              *)

(* auth.py:60-64 *)
require_teacher_or_principal(token) ==
  /\ Idle /\ UNCHANGED threads
  /\ resp' = IF get_account_of(token).status # 200
             THEN get_account_of(token)
             ELSE IF get_account_of(token).value.role
                       \notin {Role.TEACHER, Role.PRINCIPAL}
             THEN Raise("require_teacher_or_principal", 403, "forbidden")
             ELSE Return("require_teacher_or_principal",
                         get_account_of(token).value)
  /\ UNCHANGED <<accounts, tokens, minted, students, grades, audit_logs, now>>

(* services.py:335-366 as a call: the entries are the response *)
principal_grade_details_call(filters) ==
  /\ Idle /\ UNCHANGED threads
  /\ resp' = Return("principal_grade_details",
                    [entries |-> principal_grade_details(grades, filters)])
  /\ UNCHANGED <<accounts, tokens, minted, students, grades, audit_logs, now>>

ReadLoginInputs ==
  {<<"principal", "Pass@123">>, <<"s_s001", "Pass@123">>, <<"s_s001", "wrong">>}
ReadTeacherListInputs ==
  AnyTeacherListInputs \cup {<<"t_chn", "EX2025N", "None">>}
ReadFilters ==
  {Filters("None", "None", "None"), Filters("EX2025N", "Class 1", "CHN"),
   Filters("EXBAD", "Class 9", "BADSUB")}
ReadRoles == {Role.STUDENT, Role.PRINCIPAL}

NextReads ==
  \/ Respond
  \/ \E i \in AuditUpdateInputs : teacher_update_grade(i[1], i[2], i[3], i[4], i[5])
  \/ \E i \in AuditPublishInputs : publish_grades(i[1], i[2], i[3])
  \/ \E i \in ReadLoginInputs : authenticate(i[1], i[2])
  \/ \E i \in ReadTeacherListInputs : teacher_list_grades(i[1], i[2], i[3])
  \/ \E e \in OverviewInputs : principal_overview(e)
  \/ \E f \in ReadFilters : principal_grade_details_call(f)
  \/ \E a \in AuditReaders : list_audit_logs(a)
  \/ \E t \in TokenInputs : get_account(t)
  \/ \E t \in TokenInputs, r \in ReadRoles : require_role(t, r)
  \/ \E t \in TokenInputs : require_teacher_or_principal(t)

SpecReads == Init /\ [][NextReads]_vars

ReadOps ==
  {"teacher_list_grades", "principal_overview", "principal_grade_details",
   "list_audit_logs", "get_account", "require_role",
   "require_teacher_or_principal"}

(* one of the read operations or session gates is the step *)
ReadStep ==
  \/ \E i \in ReadTeacherListInputs : teacher_list_grades(i[1], i[2], i[3])
  \/ \E e \in OverviewInputs : principal_overview(e)
  \/ \E f \in ReadFilters : principal_grade_details_call(f)
  \/ \E a \in AuditReaders : list_audit_logs(a)
  \/ \E t \in TokenInputs : get_account(t)
  \/ \E t \in TokenInputs, r \in ReadRoles : require_role(t, r)
  \/ \E t \in TokenInputs : require_teacher_or_principal(t)

(* C39: teacher_list_grades, principal_overview, principal_grade_details,  *)
(* list_audit_logs, get_account, require_role and                          *)
(* require_teacher_or_principal leave the accounts, the session registry,  *)
(* the grades, the student records with their flags and the audit log as   *)
(* they were, whether they return or raise.                                *)
C39_ReadsChangeNothing ==
  [][(ReadStep \/ resp'.op \in ReadOps)
       => UNCHANGED <<accounts, tokens, minted, students, grades,
                      audit_logs, now>>]_vars

(* a teacher's audit listing has returned entries while a student has an   *)
(* unread notification, a failed login is on record and a session is open  *)
C39_Witness ==
  /\ resp.op = "list_audit_logs" /\ resp.status = 200
  /\ Len(resp.value.logs) >= 2
  /\ Flag("S001")
  /\ accounts["s_s001"].failed_attempts > 0
  /\ DOMAIN tokens # {}
====
